---- MODULE Spec2Model ----
(***************************************************************************)
(* Model of the ad extraction and aggregation core of the Kroger ad        *)
(* scraper:                                                                *)
(*   - kroger_ad_core.extract_ads_from_html   (placement classifier)       *)
(*   - ad_extractors.CarouselExtractor / TOAExtractor / AdExtractor        *)
(*   - process_saved_html (day-file aggregator)                            *)
(*   - scheduler_entry (single-instance lock), scheduler_daemon (the       *)
(*     monitoring loop), app (run now and its status file)                 *)
(*   - kroger_search_and_capture / process_saved_html (page file names)    *)
(***************************************************************************)
EXTENDS Integers, Sequences, FiniteSets, TLC

VARIABLES
    page,       \* the div elements of the parsed page, in document order
    cpc,        \* position of extract_ads_from_html in its loop over ad types
    toa_divs,   \* TOA candidates (indices into page)
    skyscraper_divs, \* Skyscraper candidates
    carousel_divs,   \* CuratedCarousel candidates
    client,     \* the client argument of extract_ads_from_html (FALSE: None)
    results,    \* the results list extract_ads_from_html builds
    frag,       \* the HTML fragment handed to an extractor's extract()
    ret,        \* what extract() returned: <<>> before the call, else <<value>>
    exc,        \* the exception that escaped the call: <<>> or <<name>>
    now,        \* the wall clock, in seconds
    input_dir,  \* the search_results_*.html files of the input directory
    day_file,   \* TOA/toa_results_<today>.json
    run,        \* the aggregator runs (process_saved_html.py processes)
    EXTRACTORS, \* the registry dict of ad_extractors, in insertion order
    reg_call,   \* the last call made on the registry and what it returned
    workers,    \* the worker threads that call the extraction functions
    earlier,    \* what the earlier extract_ads_from_html calls on the page returned
    launch,     \* the scheduler_entry processes: position, exit status, history
    lock,       \* the holder of the flock on logs/scheduler.lock: <<>> or <<process>>
    pid_file,   \* the content of logs/scheduler.pid: <<>> (no file) or <<process>>
    wall,       \* the wall clock of the scheduler daemon, in slots of ten seconds
    clients,    \* per client directory: its schedule_config.json and its keywords
    daemon,     \* position of SchedulerDaemon.monitor_schedules in its loop
    last_run_times, \* self.last_run_times: run key -> time of registration
    threads,    \* self.threads: thread key -> the thread, in insertion order
    started,    \* every scraping thread monitor_schedules has started
    status_file,\* per client: scrape_status.json, <<>> (no file) or <<status>>
    jobs,       \* the run_scrape_for_client threads api_scrape_now has started
    seen,       \* what api_status has returned, with the state of the workers then
    saved       \* the pages search_and_capture saved: term, file name, keyword derived

cvars == <<page, cpc, toa_divs, skyscraper_divs, carousel_divs, client, results>>
evars == <<frag, ret, exc>>
avars == <<now, input_dir, day_file, run>>
rvars == <<EXTRACTORS, reg_call, workers>>
pvars == <<earlier>>
lvars == <<launch, lock, pid_file>>
dvars == <<wall, clients, daemon, last_run_times, threads, started>>
svars == <<status_file, jobs, seen>>
kvars == <<saved>>
nvars == <<pvars, lvars, dvars, svars, kvars>>

vars == <<page, cpc, toa_divs, skyscraper_divs, carousel_divs, client, results,
          frag, ret, exc, now, input_dir, day_file, run,
          EXTRACTORS, reg_call, workers, earlier, launch, lock, pid_file,
          wall, clients, daemon, last_run_times, threads, started,
          status_file, jobs, seen, saved>>

\* no repeated call of extract_ads_from_html is being compared
RepeatIdle == earlier = <<>>

\* no scheduler_entry process was launched
LockIdle ==
    /\ launch = <<>>
    /\ lock = <<>>
    /\ pid_file = <<>>

\* the scheduler daemon is not running
DaemonIdle ==
    /\ wall = 0
    /\ clients = <<>>
    /\ daemon = [pc |-> "off"]
    /\ last_run_times = <<>>
    /\ threads = <<>>
    /\ started = <<>>

\* the web application has started no run
RunNowIdle ==
    /\ status_file = <<>>
    /\ jobs = <<>>
    /\ seen = {}

\* no page was saved by search_and_capture
CaptureIdle == saved = <<>>

\* the processes outside the extraction core are not running
NewIdle == RepeatIdle /\ LockIdle /\ DaemonIdle /\ RunNowIdle /\ CaptureIdle


-----------------------------------------------------------------------------
(* Bounds *)

MaxDivs == 2
MaxLinks == 2
MaxAlt == 3
MaxFiles == 2
MaxClock == 1
MaxRuns == 2
MaxCalls == 3
MaxRepeats == 1
MaxMinutes == 3
MaxJobs == 2
MaxKeywords == 2
MaxTerm == 2
MaxSaved == 2

-----------------------------------------------------------------------------
(* ad_extractors: the registry.  A dict is the sequence of its items in     *)
(* insertion order; a lookup result is <<>> (None) or <<value>>.            *)

ExtractorNames == {"TOA", "Skyscraper", "CuratedCarousel"}
ExtractorClasses == {"TOAExtractor", "SkyscraperExtractor", "CarouselExtractor"}

\* d.get(k)
DictGet(d, k) ==
    IF \E i \in 1..Len(d) : d[i].key = k
    THEN <<d[CHOOSE i \in 1..Len(d) : d[i].key = k /\ \A j \in 1..(i-1) : d[j].key # k].value>>
    ELSE <<>>

\* Variant of DictSet that adds an item for every assignment.
DictSet_Appending(d, k, v) == Append(d, [key |-> k, value |-> v])

\* d[k] = v: the value of an existing key is replaced in place, a new key is
\* added at the end
DictSet(d, k, v) ==
    IF \E i \in 1..Len(d) : d[i].key = k
    THEN [i \in 1..Len(d) |-> IF d[i].key = k THEN [key |-> k, value |-> v] ELSE d[i]]
    ELSE Append(d, [key |-> k, value |-> v])

\* the registry once kroger_ad_core has imported the three extractor modules
ImportedExtractors ==
    DictSet(DictSet(DictSet(<<>>, "TOA", "TOAExtractor"),
                    "Skyscraper", "SkyscraperExtractor"),
            "CuratedCarousel", "CarouselExtractor")

\* the extraction core, the registry and the aggregator are not running
CoreIdle ==
    /\ page = <<>>
    /\ cpc = "idle"
    /\ toa_divs = <<>>
    /\ skyscraper_divs = <<>>
    /\ carousel_divs = <<>>
    /\ client = FALSE
    /\ results = <<>>
    /\ frag = [kind |-> "none"]
    /\ ret = <<>>
    /\ exc = <<>>
    /\ now = 0
    /\ input_dir = {}
    /\ run = <<>>
    /\ reg_call = <<>>
    /\ workers = <<>>
    /\ day_file = [state |-> "absent", results |-> <<>>, last_updated |-> 0]
    /\ EXTRACTORS = ImportedExtractors

RegistryInit ==
    /\ EXTRACTORS = <<>>
    /\ reg_call = <<>>
    /\ workers = <<>>
    /\ page = <<>>
    /\ cpc = "idle"
    /\ toa_divs = <<>>
    /\ skyscraper_divs = <<>>
    /\ carousel_divs = <<>>
    /\ client = FALSE
    /\ results = <<>>
    /\ frag = [kind |-> "none"]
    /\ ret = <<>>
    /\ exc = <<>>
    /\ now = 0
    /\ input_dir = {}
    /\ day_file = [state |-> "absent", results |-> <<>>, last_updated |-> 0]
    /\ run = <<>>
    /\ NewIdle

register_extractor ==
    /\ Len(reg_call) < MaxCalls
    /\ \E ad_type \in ExtractorNames, extractor_class \in ExtractorClasses :
          /\ EXTRACTORS' = DictSet(EXTRACTORS, ad_type, extractor_class)
          /\ reg_call' = Append(reg_call, [op |-> "register_extractor", ad_type |-> ad_type,
                                           extractor_class |-> extractor_class])
    /\ UNCHANGED <<workers, cvars, evars, avars, nvars>>

get_extractor ==
    /\ Len(reg_call) < MaxCalls
    /\ \E ad_type \in ExtractorNames :
          reg_call' = Append(reg_call, [op |-> "get_extractor", ad_type |-> ad_type,
                                        returned |-> DictGet(EXTRACTORS, ad_type)])
    /\ UNCHANGED <<EXTRACTORS, workers, cvars, evars, avars, nvars>>

get_all_extractors ==
    /\ Len(reg_call) < MaxCalls
    /\ reg_call' = Append(reg_call, [op |-> "get_all_extractors", returned |-> EXTRACTORS])
    /\ UNCHANGED <<EXTRACTORS, workers, cvars, evars, avars, nvars>>

RegistryNext == register_extractor \/ get_extractor \/ get_all_extractors

SpecRegistry == RegistryInit /\ [][RegistryNext]_vars

-----------------------------------------------------------------------------
(* Page elements.  An element is a div with a data-testid attribute ("" when *)
(* absent) and a class attribute (a set of class names).                    *)

TestIds ==
    { "", "StandardTOA", "SkyscraperTOA", "monetization/search-page-top",
      "monetization/search-skyscraper-top", "skyscraper-rail", "product-carousel" }

ClassAttrs ==
    { {}, {"amp-container"}, {"Standard-TOA"}, {"kds-TOA"},
      {"CuratedCarousel"}, {"CuratedCarousel", "py-32", "bg-accent-more-subtle"},
      {"ProductCarousel"},
      {"amp-container", "Standard-TOA"}, {"amp-container", "ProductCarousel"} }

Divs == [testid : TestIds, classes : ClassAttrs]

Pages == UNION { [1..n -> Divs] : n \in 0..MaxDivs }

\* The case-sensitive substring facts the attribute selectors ( *= ) rely on,
\* for the attribute values above.
SubstringFacts ==
    { <<"monetization/search-skyscraper-top", "skyscraper">>,
      <<"skyscraper-rail", "skyscraper">>,
      <<"product-carousel", "carousel">>,
      <<"Standard-TOA", "TOA">>, <<"kds-TOA", "TOA">>,
      <<"StandardTOA", "TOA">>, <<"SkyscraperTOA", "TOA">>,
      <<"CuratedCarousel", "Carousel">>, <<"ProductCarousel", "Carousel">> }

Contains(s, sub) == <<s, sub>> \in SubstringFacts

\* soup.select(selector): the matching divs in document order.
Range(s) == { s[i] : i \in 1..Len(s) }

\* matching is the set of elements the selector matches
Select(pg, matching) ==
    SelectSeq([i \in 1..Len(pg) |-> i], LAMBDA i : pg[i] \in matching)

\* div[data-testid="v"]
TestIdIs(v, e) == e.testid = v
\* div[data-testid*="v"]
TestIdHas(v, e) == Contains(e.testid, v)
\* div.c
HasClass(c, e) == c \in e.classes
\* div[class*="v"]
ClassHas(v, e) == \E c \in e.classes : Contains(c, v)

\* [div for div in divs if div.get("data-testid") != "StandardTOA"]
NotStandardTOA(pg, divs) ==
    SelectSeq(divs, LAMBDA i : pg[i].testid # "StandardTOA")

-----------------------------------------------------------------------------
(* Candidate selection of extract_ads_from_html *)

\* Variant of ToaDivs in which the fallbacks add to the primary matches
\* instead of replacing an empty list.
ToaDivs_Accumulating(pg) ==
    Select(pg, {e \in Range(pg) : TestIdIs("StandardTOA", e)
                          \/ HasClass("Standard-TOA", e)
                          \/ ClassHas("TOA", e)})

\* TOA branch: primary selector, then two fallbacks.
ToaDivs(pg) ==
    LET d1 == Select(pg, {e \in Range(pg) : TestIdIs("StandardTOA", e)})
        d2 == IF d1 = <<>> THEN Select(pg, {e \in Range(pg) : HasClass("Standard-TOA", e)}) ELSE d1
        d3 == IF d2 = <<>> THEN Select(pg, {e \in Range(pg) : ClassHas("TOA", e)}) ELSE d2
    IN  d3

\* Variant of SkyscraperDivs whose last fallback (div.amp-container) is not
\* filtered against the StandardTOA marker.
SkyscraperDivs_UnfilteredFallback(pg) ==
    LET s1 == Select(pg, {e \in Range(pg) : TestIdIs("monetization/search-page-top", e)})
        s2 == s1 \o Select(pg, {e \in Range(pg) : TestIdIs("SkyscraperTOA", e)})
        s3 == IF s2 = <<>>
              THEN Select(pg, {e \in Range(pg) : TestIdIs("monetization/search-skyscraper-top", e)})
              ELSE s2
        s4 == IF s3 = <<>>
              THEN Select(pg, {e \in Range(pg) : HasClass("amp-container", e)
                                         /\ TestIdHas("skyscraper", e)})
              ELSE s3
        s5 == IF s4 = <<>>
              THEN Select(pg, {e \in Range(pg) : HasClass("amp-container", e)})
              ELSE s4
    IN  s5

\* Variant of SkyscraperDivs that leaves the hybrid SkyscraperTOA elements out.
SkyscraperDivs_NoHybrid(pg) ==
    LET s1 == NotStandardTOA(pg,
                 Select(pg, {e \in Range(pg) : TestIdIs("monetization/search-page-top", e)}))
        s3 == IF s1 = <<>>
              THEN NotStandardTOA(pg,
                     Select(pg, {e \in Range(pg) : TestIdIs("monetization/search-skyscraper-top", e)}))
              ELSE s1
        s4 == IF s3 = <<>>
              THEN NotStandardTOA(pg,
                     Select(pg, {e \in Range(pg) : HasClass("amp-container", e)
                                           /\ TestIdHas("skyscraper", e)}))
              ELSE s3
        s5 == IF s4 = <<>>
              THEN NotStandardTOA(pg,
                     Select(pg, {e \in Range(pg) : HasClass("amp-container", e)}))
              ELSE s4
    IN  s5

\* Skyscraper branch: primary selector, hybrid SkyscraperTOA elements appended,
\* then three fallbacks, each filtered against the StandardTOA marker.
SkyscraperDivs(pg) ==
    LET s1 == NotStandardTOA(pg,
                 Select(pg, {e \in Range(pg) : TestIdIs("monetization/search-page-top", e)}))
        skyscraper_toa_divs == Select(pg, {e \in Range(pg) : TestIdIs("SkyscraperTOA", e)})
        filtered_toa_divs == NotStandardTOA(pg, skyscraper_toa_divs)
        s2 == IF skyscraper_toa_divs # <<>> /\ filtered_toa_divs # <<>>
              THEN s1 \o filtered_toa_divs ELSE s1
        s3 == IF s2 = <<>>
              THEN NotStandardTOA(pg,
                     Select(pg, {e \in Range(pg) : TestIdIs("monetization/search-skyscraper-top", e)}))
              ELSE s2
        s4 == IF s3 = <<>>
              THEN NotStandardTOA(pg,
                     Select(pg, {e \in Range(pg) : HasClass("amp-container", e)
                                           /\ TestIdHas("skyscraper", e)}))
              ELSE s3
        s5 == IF s4 = <<>>
              THEN NotStandardTOA(pg,
                     Select(pg, {e \in Range(pg) : HasClass("amp-container", e)}))
              ELSE s4
    IN  s5

\* CuratedCarousel branch: an or-chain of four selectors.
CarouselDivs(pg) ==
    LET c1 == Select(pg, {e \in Range(pg) : HasClass("CuratedCarousel", e)
                                    /\ HasClass("py-32", e)
                                    /\ HasClass("bg-accent-more-subtle", e)})
        c2 == Select(pg, {e \in Range(pg) : HasClass("CuratedCarousel", e)})
        c3 == Select(pg, {e \in Range(pg) : ClassHas("Carousel", e)})
        c4 == Select(pg, {e \in Range(pg) : TestIdHas("carousel", e)})
    IN  IF c1 # <<>> THEN c1
        ELSE IF c2 # <<>> THEN c2
        ELSE IF c3 # <<>> THEN c3
        ELSE c4

-----------------------------------------------------------------------------
(* Values.  An optional value (None, or a missing key of a record) is the   *)
(* empty tuple; a present value v is <<v>>.  A text is a tuple of           *)
(* characters; a URL is a tuple of characters and literal pieces.          *)

None == <<>>
Some(v) == <<v>>

RECURSIVE LStrip(_)
LStrip(s) == IF s # <<>> /\ Head(s) = " " THEN LStrip(Tail(s)) ELSE s

RECURSIVE RStrip(_)
RStrip(s) == IF s # <<>> /\ s[Len(s)] = " " THEN RStrip(SubSeq(s, 1, Len(s) - 1)) ELSE s

\* str.strip()
Strip(s) == RStrip(LStrip(s))

\* str.lower(), on the letters used here
LowerChar(c) == CASE c = "B" -> "b" [] c = "Y" -> "y" [] OTHER -> c
Lower(s) == [i \in 1..Len(s) |-> LowerChar(s[i])]

UpperChar(c) == CASE c = "a" -> "A" [] c = "b" -> "B" [] c = "c" -> "C" [] OTHER -> c
IsLetter(c) == c \in {"a", "b", "c", "y", "A", "B", "C", "Y"}

\* str.title(): a letter is upper-cased when it does not follow a letter,
\* lower-cased when it does.
Title(s) ==
    [i \in 1..Len(s) |->
        IF i > 1 /\ IsLetter(s[i-1]) THEN LowerChar(s[i]) ELSE UpperChar(s[i])]

\* the positions where the two-character token "by" starts in s
ByPositions(s) == { i \in 1..(Len(s) - 1) : s[i] = "b" /\ s[i+1] = "y" }

Max(S) == CHOOSE x \in S : \A y \in S : y <= x

\* text.split("by")[-1]
AfterLastBy(s) ==
    IF ByPositions(s) = {} THEN s
    ELSE SubSeq(s, Max(ByPositions(s)) + 2, Len(s))

\* re.sub(r'\s+', ' ', s)
RECURSIVE CollapseSpaces(_)
CollapseSpaces(s) ==
    IF Len(s) < 2 THEN s
    ELSE IF s[1] = " " /\ s[2] = " " THEN CollapseSpaces(Tail(s))
    ELSE <<s[1]>> \o CollapseSpaces(Tail(s))

\* str.rstrip('.')
RECURSIVE RStripPeriods(_)
RStripPeriods(s) ==
    IF s # <<>> /\ s[Len(s)] = "." THEN RStripPeriods(SubSeq(s, 1, Len(s) - 1)) ELSE s

\* AdExtractor.extract_brand_from_text; text is None or Some(text)
extract_brand_from_text(text) ==
    IF text = None \/ text[1] = <<>> THEN None
    ELSE IF ByPositions(Lower(text[1])) # {}
         THEN Some(RStripPeriods(CollapseSpaces(Strip(AfterLastBy(text[1])))))
         ELSE None

\* characters of [a-z0-9-]
SlugChars == {"a", "b", "c", "y", "3", "-"}

\* the maximal run of slug characters of s that starts at position i
RECURSIVE SlugRun(_, _)
SlugRun(s, i) ==
    IF i <= Len(s) /\ s[i] \in SlugChars THEN <<s[i]>> \o SlugRun(s, i + 1) ELSE <<>>

\* positions where re.search(r'/pr/kpm-([a-z0-9-]+)') can match
SlugPositions(s) ==
    { i \in 1..(Len(s) - 1) : s[i] = "/pr/kpm-" /\ s[i+1] \in SlugChars }

Min(S) == CHOOSE x \in S : \A y \in S : x <= y

\* AdExtractor.extract_brand_from_href; href is None or Some(url)
extract_brand_from_href(href) ==
    IF href = None \/ href[1] = <<>> THEN None
    ELSE IF SlugPositions(href[1]) # {}
         THEN LET slug == SlugRun(href[1], Min(SlugPositions(href[1])) + 1)
              IN  Some(Title([i \in 1..Len(slug) |-> IF slug[i] = "-" THEN " " ELSE slug[i]]))
         ELSE None

\* truthiness of an optional string
Truthy(o) == o # None /\ o[1] # <<>>

-----------------------------------------------------------------------------
(* TOAExtractor.extract *)

\* result["image_path"], result["toa_image_path"] for each outcome of
\* save_image_with_crop / save_image
ImageSaveOutcomes == {"full_and_toa", "full_only", "failed", "no_pil_saved", "no_pil_failed"}

ImagePath(outcome) ==
    IF outcome \in {"full_and_toa", "full_only", "no_pil_saved"}
    THEN Some(<<"output/main/img">>) ELSE None

ToaImagePath(outcome) ==
    IF outcome = "full_and_toa" THEN Some(<<"output/TOA/img">>) ELSE None

\* extract_text(toa_div, selector): None when nothing matches
extract_text(node) == IF node = None THEN None ELSE Some(Strip(node[1]))

\* img_url with the site origin put before a relative URL
AbsoluteUrl(u) == IF u # <<>> /\ Head(u) = "/" THEN <<"https://www.kroger.com">> \o u ELSE u

\* Variant of TOABrand in which the href slug takes priority over the alt text.
TOABrand_HrefFirst(img_url, alt_text, href) ==
    IF Truthy(href) /\ Truthy(extract_brand_from_href(href))
    THEN extract_brand_from_href(href)
    ELSE IF Truthy(img_url) /\ Truthy(alt_text) /\ Truthy(extract_brand_from_text(alt_text))
         THEN extract_brand_from_text(alt_text)
         ELSE None

\* result["brand"] as TOAExtractor.extract sets it: from the alt text inside
\* the "if img_url:" block, else from the href inside the "if href:" block.
TOABrand(img_url, alt_text, href) ==
    LET from_alt == IF Truthy(img_url) /\ Truthy(alt_text)
                                       /\ Truthy(extract_brand_from_text(alt_text))
                    THEN extract_brand_from_text(alt_text) ELSE None
    IN  IF from_alt # None THEN from_alt
        ELSE IF Truthy(href) /\ Truthy(extract_brand_from_href(href))
             THEN extract_brand_from_href(href)
             ELSE None

TOAExtractResult(f, outcome) ==
    IF ~f.toa_div THEN None
    ELSE
      LET img_url  == IF f.img = None THEN None ELSE f.img[1].src
          alt_text == IF f.img = None THEN None ELSE f.img[1].alt
          href     == IF f.link = None THEN None ELSE f.link[1].href
      IN  Some([ type        |-> "TOA",
                 message     |-> extract_text(f.header),
                 description |-> extract_text(f.subtext),
                 cta         |-> extract_text(f.cta),
                 image_url   |-> IF Truthy(img_url) THEN Some(AbsoluteUrl(img_url[1])) ELSE None,
                 image_path  |-> IF Truthy(img_url) THEN ImagePath(outcome) ELSE None,
                 toa_image_path |-> IF Truthy(img_url) THEN ToaImagePath(outcome) ELSE None,
                 brand       |-> TOABrand(img_url, alt_text, href),
                 href        |-> IF Truthy(href) THEN href ELSE None ])

\* The exception that escapes TOAExtractor.extract: without PIL the fallback
\* save_image(img_url, out_dir=client_dir) runs, and with no client set
\* client_dir is None, so os.makedirs(None) raises a TypeError that save_image
\* does not catch.
TOAExtractRaises(f, outcome) ==
    LET img_url == IF f.img = None THEN None ELSE f.img[1].src
    IN  IF f.toa_div /\ Truthy(img_url) /\ ~f.client
                     /\ outcome \in {"no_pil_saved", "no_pil_failed"}
        THEN Some("TypeError") ELSE None

-----------------------------------------------------------------------------
(* SkyscraperExtractor.extract *)

\* datetime.now().strftime("%Y-%m-%d_%H-%M-%S"): one text per second of the clock
strftime(t) == ToString(t)

\* element.get_text(strip=True) of an optional element
get_text(node) == IF node = None THEN None ELSE Some(Strip(node[1]))

SkyscraperExtractResult(f) ==
    IF ~(TestIdHas("skyscraper", f.root) \/ HasClass("amp-container", f.root)) THEN None
    ELSE
      LET src   == IF f.img = None THEN None ELSE f.img[1].src
          href  == IF f.link = None THEN None ELSE f.link[1].href
          title == IF f.h2 # None THEN f.h2 ELSE f.header
          desc  == IF f.subtext # None THEN f.subtext ELSE f.span
          image_url == IF Truthy(src) THEN Some(AbsoluteUrl(src[1])) ELSE None
      IN  Some([ type        |-> "Skyscraper",
                 image_url   |-> image_url,
                 href        |-> IF Truthy(href) THEN Some(AbsoluteUrl(href[1])) ELSE None,
                 message     |-> get_text(title),
                 description |-> get_text(desc),
                 cta         |-> get_text(f.cta),
                 brand       |-> get_text(f.brand_elem),
                 skyscraper_image_path |->
                     IF image_url # None /\ f.client
                     THEN Some(<<"output/Skyscraper/skyscraper_", strftime(now), ".jpg">>)
                     ELSE None ])

-----------------------------------------------------------------------------
(* CarouselExtractor.extract *)

\* some div of the fragment matches one of the four carousel selectors
IsCarouselElement(e) ==
    \/ HasClass("CuratedCarousel", e) /\ HasClass("py-32", e)
                                      /\ HasClass("bg-accent-more-subtle", e)
    \/ HasClass("CuratedCarousel", e)
    \/ ClassHas("Carousel", e)
    \/ TestIdHas("carousel", e)

\* t occurs in s as a contiguous run (the attribute selector [alt*="t"])
IsSubstring(t, s) ==
    /\ t # <<>>
    /\ \E i \in 1..(Len(s) - Len(t) + 1) : SubSeq(s, i, i + Len(t) - 1) = t

\* product['title'] of one a.kds-Link[aria-label*="title"] element
ProductTitle(link) ==
    IF link.title_span # None THEN Strip(link.title_span[1])
    ELSE Strip(link.label_before_title)

\* the product built from one a.kds-Link[aria-label*="title"] element
Product(f, link) ==
    LET title == ProductTitle(link)
        img   == IF link.img # None THEN link.img
                 ELSE IF f.doc_img # None /\ IsSubstring(title, f.doc_img[1].alt)
                      THEN Some(f.doc_img[1].src) ELSE None
    IN  [ href      |-> link.href,
          title     |-> title,
          image_url |-> IF Truthy(img) THEN img ELSE None,
          price     |-> IF f.price = None THEN None ELSE Some(Strip(f.price[1])) ]

\* ad['products']: the products that have a title
Products(f) ==
    SelectSeq([i \in 1..Len(f.links) |-> Product(f, f.links[i])],
              LAMBDA pr : pr.title # <<>>)

\* A bs4 Tag is always truthy (Tag.__bool__ returns True).
TagTruthy(e) == TRUE

\* The exception that escapes CarouselExtractor.extract: for a product link
\* without an <img> the selector img[alt*="<title>"] is built from the title,
\* and a double quote in the title makes it malformed (SelectorSyntaxError).
CarouselExtractRaises(f) ==
    IF /\ IsCarouselElement(f.root)
       /\ \E i \in 1..Len(f.links) :
             /\ f.links[i].img = None
             /\ \E j \in 1..Len(ProductTitle(f.links[i])) :
                   ProductTitle(f.links[i])[j] = "\""
    THEN Some("SelectorSyntaxError") ELSE None

CarouselExtractResult(f) ==
    IF ~IsCarouselElement(f.root) THEN None
    ELSE IF Products(f) # <<>> \/ TagTruthy(f.root)
         THEN Some([ type      |-> "CuratedCarousel",
                     products  |-> Products(f),
                     header    |-> IF f.header = None THEN None ELSE Some(Strip(f.header[1])),
                     carousel_image_path |->
                         IF f.client
                         THEN Some(<<"output/Carousel/carousel_", strftime(now), ".png">>)
                         ELSE None,
                     capture_entire_carousel |-> f.client ])
         ELSE None

-----------------------------------------------------------------------------
(* Fragments handed to the extractors *)

AltChars == {"b", "y", "Y", "c", " "}
AltTexts == UNION { [1..n -> AltChars] : n \in 0..MaxAlt }

ImageSrcs == { <<>>, <<"/", "i.png">>, <<"https://cdn/", "i.png">> }

Hrefs == { <<>>, <<"/", "p">>, <<"/pr/kpm-">>, <<"/pr/kpm-", "A">>,
           <<"/pr/kpm-", "a", "-", "b", "3", "c">>, <<"/pr/kpm-", "c", "/", "a">> }

TOAFragments ==
    [ kind    : {"toa"},
      client  : BOOLEAN,
      toa_div : BOOLEAN,
      header  : {None, Some(<<"M", " ">>)},
      subtext : {None, Some(<<"M">>)},
      cta     : {None, Some(<<"M">>)},
      img     : {None} \cup { Some(i) :
                    i \in [ src : {None} \cup { Some(u) : u \in ImageSrcs },
                            alt : {None} \cup { Some(t) : t \in AltTexts } ] },
      link    : {None} \cup { Some(l) :
                    l \in [ href : {None} \cup { Some(h) : h \in Hrefs } ] } ]

CarouselLinks ==
    [ href  : { <<>>, <<"/", "p">> },
      title_span : {None, Some(<<" ">>), Some(<<"M">>), Some(<<"M", "\"">>)},
      label_before_title : { <<>>, <<"M", " ">> },
      img   : {None, Some(<<"/", "i.png">>)} ]

SkyscraperFragments ==
    [ kind    : {"skyscraper"},
      client  : BOOLEAN,
      root    : { [testid |-> "", classes |-> {}],
                  [testid |-> "monetization/search-page-top", classes |-> {"amp-container"}],
                  [testid |-> "skyscraper-rail", classes |-> {}] },
      h2      : {None, Some(<<"M">>)},
      header  : {None, Some(<<"M", " ">>)},
      subtext : {None, Some(<<"M">>)},
      span    : {None, Some(<<"M">>)},
      cta     : {None, Some(<<"M">>)},
      brand_elem : {None, Some(<<"M">>)},
      img     : {None} \cup { Some([src |-> u, alt |-> None]) :
                    u \in {None} \cup { Some(v) : v \in ImageSrcs } },
      link    : {None} \cup { Some([href |-> h]) :
                    h \in {None, Some(<<>>), Some(<<"/", "p">>),
                           Some(<<"https://www.kroger.com", "/", "p">>)} } ]

CarouselFragments ==
    [ kind   : {"carousel"},
      root   : { [testid |-> "", classes |-> {}],
                 [testid |-> "", classes |-> {"CuratedCarousel"}],
                 [testid |-> "product-carousel", classes |-> {}] },
      header : {None, Some(<<"M">>)},
      price  : {None, Some(<<"M">>)},
      doc_img : {None, Some([alt |-> <<"M", " ">>, src |-> <<"/", "i.png">>])},
      client : BOOLEAN,
      links  : UNION { [1..n -> CarouselLinks] : n \in 0..MaxLinks } ]

ExtractInit ==
    /\ frag \in TOAFragments \cup SkyscraperFragments \cup CarouselFragments
    /\ ret = <<>>
    /\ exc = <<>>
    /\ client = FALSE
    /\ results = <<>>
    /\ EXTRACTORS = ImportedExtractors
    /\ reg_call = <<>>
    /\ workers = <<>>
    /\ page = <<>>
    /\ cpc = "idle"
    /\ toa_divs = <<>>
    /\ skyscraper_divs = <<>>
    /\ carousel_divs = <<>>
    /\ now = 0
    /\ input_dir = {}
    /\ day_file = [state |-> "absent", results |-> <<>>, last_updated |-> 0]
    /\ run = <<>>
    /\ NewIdle

\* extractor.extract(raw_html) of a TOAExtractor
TOAExtract ==
    /\ frag.kind = "toa"
    /\ ret = <<>>
    /\ exc = <<>>
    /\ \E outcome \in ImageSaveOutcomes :
          IF TOAExtractRaises(frag, outcome) # None
          THEN exc' = TOAExtractRaises(frag, outcome) /\ ret' = ret
          ELSE ret' = <<TOAExtractResult(frag, outcome)>> /\ exc' = exc
    /\ UNCHANGED <<frag, cvars, avars, rvars, nvars>>

\* extractor.extract(raw_html) of a SkyscraperExtractor
SkyscraperExtract ==
    /\ frag.kind = "skyscraper"
    /\ ret = <<>>
    /\ exc = <<>>
    /\ ret' = <<SkyscraperExtractResult(frag)>>
    /\ UNCHANGED <<frag, exc, cvars, avars, rvars, nvars>>

\* extractor.extract(raw_html) of a CarouselExtractor
CarouselExtract ==
    /\ frag.kind = "carousel"
    /\ ret = <<>>
    /\ exc = <<>>
    /\ IF CarouselExtractRaises(frag) # None
       THEN exc' = CarouselExtractRaises(frag) /\ ret' = ret
       ELSE ret' = <<CarouselExtractResult(frag)>> /\ exc' = exc
    /\ UNCHANGED <<frag, cvars, avars, rvars, nvars>>

ExtractNext == TOAExtract \/ SkyscraperExtract \/ CarouselExtract

SpecExtract == ExtractInit /\ [][ExtractNext]_vars

-----------------------------------------------------------------------------
(* extract_ads_from_html: one step per registered ad type, in registration  *)
(* order TOA, Skyscraper, CuratedCarousel.  Each step selects the type's    *)
(* candidates and runs the type's extraction loop over them.                *)

\* What a div contains.  A banner body holds the espot sub-elements, a
\* carousel body the carousel header, product links, price and a stray image.
NoBody ==
    [ kind |-> "banner", header |-> None, subtext |-> None, cta |-> None,
      img |-> None, link |-> None ]

BannerBodies ==
    { NoBody,
      [ kind |-> "banner", header |-> Some(<<"M", " ">>), subtext |-> None, cta |-> None,
        img |-> Some([src |-> Some(<<"/", "i.png">>), alt |-> None]), link |-> None ],
      [ kind |-> "banner", header |-> None, subtext |-> Some(<<"M">>), cta |-> Some(<<"M">>),
        img |-> Some([src |-> Some(<<"https://cdn/", "i.png">>), alt |-> Some(<<"b", "y", "c">>)]),
        link |-> Some([href |-> Some(<<"/", "p">>)]) ] }

CarouselBodies ==
    { [ kind |-> "carousel", header |-> Some(<<"M">>), price |-> None, doc_img |-> None,
        links |-> << [ href |-> <<"/", "p">>, title_span |-> Some(<<"M">>),
                       label_before_title |-> <<>>, img |-> Some(<<"/", "i.png">>) ] >> ],
      [ kind |-> "carousel", header |-> None, price |-> None, doc_img |-> None,
        links |-> << [ href |-> <<"/", "p">>, title_span |-> Some(<<"M", "\"">>),
                       label_before_title |-> <<>>, img |-> None ] >> ] }

WithBody(d, b) == [testid |-> d.testid, classes |-> d.classes, body |-> b]

BannerMarkers ==
    { [testid |-> "StandardTOA", classes |-> {}],
      [testid |-> "StandardTOA", classes |-> {"amp-container"}],
      [testid |-> "SkyscraperTOA", classes |-> {}],
      [testid |-> "SkyscraperTOA", classes |-> {"kds-TOA"}],
      [testid |-> "monetization/search-page-top", classes |-> {}],
      [testid |-> "monetization/search-page-top", classes |-> {"amp-container"}],
      [testid |-> "", classes |-> {"amp-container"}],
      [testid |-> "", classes |-> {"Standard-TOA"}] }

CarouselMarkers ==
    { [testid |-> "", classes |-> {"CuratedCarousel"}],
      [testid |-> "", classes |-> {"amp-container", "ProductCarousel"}] }

ContentDivs ==
    { WithBody(d, b) : d \in BannerMarkers, b \in BannerBodies }
    \cup { WithBody(d, b) : d \in CarouselMarkers, b \in CarouselBodies }

ContentPages == UNION { [1..n -> ContentDivs] : n \in 0..MaxDivs }

\* Variant of TOAFragmentOf in which any candidate div counts as the banner.
TOAFragmentOf_AnyDiv(e, cl) ==
    [ kind |-> "toa", client |-> cl, toa_div |-> TRUE,
      header  |-> IF e.body.kind = "banner" THEN e.body.header ELSE None,
      subtext |-> IF e.body.kind = "banner" THEN e.body.subtext ELSE None,
      cta     |-> IF e.body.kind = "banner" THEN e.body.cta ELSE None,
      img     |-> IF e.body.kind = "banner" THEN e.body.img ELSE None,
      link    |-> IF e.body.kind = "banner" THEN e.body.link ELSE None ]

\* raw_html = str(div), as TOAExtractor.extract parses it
TOAFragmentOf(e, cl) ==
    [ kind |-> "toa", client |-> cl, toa_div |-> e.testid = "StandardTOA",
      header  |-> IF e.body.kind = "banner" THEN e.body.header ELSE None,
      subtext |-> IF e.body.kind = "banner" THEN e.body.subtext ELSE None,
      cta     |-> IF e.body.kind = "banner" THEN e.body.cta ELSE None,
      img     |-> IF e.body.kind = "banner" THEN e.body.img ELSE None,
      link    |-> IF e.body.kind = "banner" THEN e.body.link ELSE None ]

\* the first <img> of a carousel body: that of the first product link that
\* has one, else the stray image
FirstCarouselImg(b) ==
    LET with == { i \in 1..Len(b.links) : b.links[i].img # None }
    IN  IF with # {} THEN Some([src |-> b.links[Min(with)].img, alt |-> None])
        ELSE IF b.doc_img # None THEN Some([src |-> Some(b.doc_img[1].src), alt |-> None])
        ELSE None

\* the first <span> of a carousel body: the first product title span
FirstCarouselSpan(b) ==
    LET with == { i \in 1..Len(b.links) : b.links[i].title_span # None }
    IN  IF with # {} THEN b.links[Min(with)].title_span ELSE None

\* raw_html = str(div), as SkyscraperExtractor.extract and the inline
\* fallback of extract_ads_from_html see it
SkyscraperFragmentOf(e, cl) ==
    IF e.body.kind = "banner"
    THEN [ kind |-> "skyscraper", client |-> cl,
           root |-> [testid |-> e.testid, classes |-> e.classes],
           h2 |-> None, header |-> e.body.header, subtext |-> e.body.subtext,
           span |-> None, cta |-> e.body.cta, brand_elem |-> None,
           img |-> e.body.img, link |-> e.body.link ]
    ELSE [ kind |-> "skyscraper", client |-> cl,
           root |-> [testid |-> e.testid, classes |-> e.classes],
           h2 |-> None, header |-> None, subtext |-> None,
           span |-> FirstCarouselSpan(e.body), cta |-> None, brand_elem |-> None,
           img |-> FirstCarouselImg(e.body),
           link |-> IF e.body.links = <<>> THEN None
                    ELSE Some([href |-> Some(e.body.links[1].href)]) ]

\* raw_html = str(div), as CarouselExtractor.extract parses it
CarouselFragmentOf(e, cl) ==
    [ kind |-> "carousel", client |-> cl,
      root |-> [testid |-> e.testid, classes |-> e.classes],
      header  |-> IF e.body.kind = "carousel" THEN e.body.header ELSE None,
      price   |-> IF e.body.kind = "carousel" THEN e.body.price ELSE None,
      doc_img |-> IF e.body.kind = "carousel" THEN e.body.doc_img ELSE None,
      links   |-> IF e.body.kind = "carousel" THEN e.body.links ELSE <<>> ]

\* ad['html'] = raw_html
WithHtml(ad, e) ==
    [ x \in DOMAIN ad \cup {"html"} |-> IF x = "html" THEN e ELSE ad[x] ]

\* the records a loop appends, from what extract() returned for the
\* candidates it reached: "if ad:" drops the None results
Appended(pg, divs, rets) ==
    LET kept == SelectSeq([k \in 1..Len(rets) |-> k], LAMBDA k : rets[k] # None)
    IN  [j \in 1..Len(kept) |-> WithHtml(rets[kept[j]][1], pg[divs[kept[j]]])]

\* the TOA loop: the records appended and the exception that ended it
TOALoop(pg, divs, cl, outcomes) ==
    LET raising == { k \in 1..Len(divs) :
                       TOAExtractRaises(TOAFragmentOf(pg[divs[k]], cl), outcomes[k]) # None }
        reached == IF raising = {} THEN Len(divs) ELSE Min(raising) - 1
        rets    == [k \in 1..reached |->
                       TOAExtractResult(TOAFragmentOf(pg[divs[k]], cl), outcomes[k])]
    IN  [ records |-> Appended(pg, divs, rets),
          exc |-> IF raising = {} THEN None ELSE Some("TypeError") ]

\* the basic ad structure built inline when SkyscraperExtractor returns None
SkyscraperInlineRecord(f) ==
    LET src  == IF f.img = None THEN None ELSE f.img[1].src
        href == IF f.link = None THEN None ELSE f.link[1].href
    IN  [ type        |-> "Skyscraper",
          image_url   |-> IF Truthy(src) THEN src ELSE None,
          href        |-> IF Truthy(href) THEN href ELSE None,
          message     |-> get_text(IF f.h2 # None THEN f.h2 ELSE f.header),
          description |-> get_text(IF f.subtext # None THEN f.subtext ELSE f.span),
          cta         |-> get_text(f.cta),
          brand       |-> None,
          skyscraper_image_path |-> None ]

\* Variant of SkyscraperLoop that, like the other loops, drops a candidate
\* for which the extractor returns None.
SkyscraperLoop_Dropping(pg, divs, cl) ==
    LET rets == [k \in 1..Len(divs) |->
                    SkyscraperExtractResult(SkyscraperFragmentOf(pg[divs[k]], cl))]
        kept == SelectSeq([k \in 1..Len(rets) |-> k], LAMBDA k : rets[k] # None)
    IN  [j \in 1..Len(kept) |-> rets[kept[j]][1]]

\* the Skyscraper loop: one record per candidate
SkyscraperLoop(pg, divs, cl) ==
    [k \in 1..Len(divs) |->
        LET f  == SkyscraperFragmentOf(pg[divs[k]], cl)
            ad == SkyscraperExtractResult(f)
        IN  IF ad # None THEN ad[1] ELSE SkyscraperInlineRecord(f)]

\* the CuratedCarousel loop: the records appended and the exception that
\* ended it
CarouselLoop(pg, divs, cl) ==
    LET raising == { k \in 1..Len(divs) :
                       CarouselExtractRaises(CarouselFragmentOf(pg[divs[k]], cl)) # None }
        reached == IF raising = {} THEN Len(divs) ELSE Min(raising) - 1
        rets    == [k \in 1..reached |->
                       CarouselExtractResult(CarouselFragmentOf(pg[divs[k]], cl))]
    IN  [ records |-> Appended(pg, divs, rets),
          exc |-> IF raising = {} THEN None ELSE Some("SelectorSyntaxError") ]

\* pages of empty divs, all marker combinations
ClassifyInit ==
    /\ page \in { [i \in 1..Len(pg) |-> WithBody(pg[i], NoBody)] : pg \in Pages }
    /\ client = FALSE
    /\ cpc = "TOA"
    /\ toa_divs = <<>>
    /\ skyscraper_divs = <<>>
    /\ carousel_divs = <<>>
    /\ results = <<>>
    /\ exc = <<>>
    /\ frag = [kind |-> "none"]
    /\ ret = <<>>
    /\ now = 0
    /\ input_dir = {}
    /\ day_file = [state |-> "absent", results |-> <<>>, last_updated |-> 0]
    /\ run = <<>>
    /\ EXTRACTORS = ImportedExtractors
    /\ reg_call = <<>>
    /\ workers = <<>>
    /\ NewIdle

\* pages of divs with content, for the markers that matter to the loops
ContentInit ==
    /\ page \in ContentPages
    /\ client \in BOOLEAN
    /\ cpc = "TOA"
    /\ toa_divs = <<>>
    /\ skyscraper_divs = <<>>
    /\ carousel_divs = <<>>
    /\ results = <<>>
    /\ exc = <<>>
    /\ frag = [kind |-> "none"]
    /\ ret = <<>>
    /\ now = 0
    /\ input_dir = {}
    /\ day_file = [state |-> "absent", results |-> <<>>, last_updated |-> 0]
    /\ run = <<>>
    /\ EXTRACTORS = ImportedExtractors
    /\ reg_call = <<>>
    /\ workers = <<>>
    /\ NewIdle

ClassifyTOA ==
    /\ cpc = "TOA"
    /\ toa_divs' = ToaDivs(page)
    /\ \E outcomes \in [1..Len(ToaDivs(page)) -> ImageSaveOutcomes] :
          LET loop == TOALoop(page, ToaDivs(page), client, outcomes)
          IN  /\ results' = results \o loop.records
              /\ exc' = loop.exc
              /\ cpc' = IF loop.exc = None THEN "Skyscraper" ELSE "raised"
    /\ UNCHANGED <<page, client, skyscraper_divs, carousel_divs, frag, ret, avars, rvars, nvars>>

ClassifySkyscraper ==
    /\ cpc = "Skyscraper"
    /\ skyscraper_divs' = SkyscraperDivs(page)
    /\ results' = results \o SkyscraperLoop(page, SkyscraperDivs(page), client)
    /\ cpc' = "CuratedCarousel"
    /\ UNCHANGED <<page, client, toa_divs, carousel_divs, evars, avars, rvars, nvars>>

ClassifyCarousel ==
    /\ cpc = "CuratedCarousel"
    /\ carousel_divs' = CarouselDivs(page)
    /\ LET loop == CarouselLoop(page, CarouselDivs(page), client)
       IN  /\ results' = results \o loop.records
           /\ exc' = loop.exc
           /\ cpc' = IF loop.exc = None THEN "done" ELSE "raised"
    /\ UNCHANGED <<page, client, toa_divs, skyscraper_divs, frag, ret, avars, rvars, nvars>>

\* the caller calls extract_ads_from_html(html, client) again on the same
\* HTML after the previous call returned
CallAgain ==
    /\ cpc = "done"
    /\ Len(earlier) < MaxRepeats
    /\ earlier' = Append(earlier, results)
    /\ results' = <<>>
    /\ toa_divs' = <<>>
    /\ skyscraper_divs' = <<>>
    /\ carousel_divs' = <<>>
    /\ cpc' = "TOA"
    /\ UNCHANGED <<page, client, evars, avars, rvars, lvars, dvars, svars, kvars>>

ClassifyNext == ClassifyTOA \/ ClassifySkyscraper \/ ClassifyCarousel

SpecClassify == ClassifyInit /\ [][ClassifyNext]_vars

SpecContent == ContentInit /\ [][ClassifyNext]_vars

-----------------------------------------------------------------------------
(* Worker threads that call extract_ads_from_html and extract_toa_ad on     *)
(* their own pages, sharing the registry.  extract_ads_from_html is split   *)
(* at the points where another thread can run: the call, the construction   *)
(* of the extractor of the next registered type, and that type's branch.    *)

Workers == {1, 2}

\* an AdExtractor instance as __init__ leaves it
NewExtractor == [client |-> FALSE]

IdleWorker ==
    [ pc |-> "idle", fn |-> "none", page |-> <<>>, client |-> FALSE, k |-> 0,
      extractor |-> NewExtractor, results |-> <<>>, returned |-> <<>>, exc |-> <<>> ]

WorkerPages ==
    { <<>>,
      << WithBody([testid |-> "StandardTOA", classes |-> {}],
                  [ kind |-> "banner", header |-> Some(<<"M", " ">>), subtext |-> None,
                    cta |-> None,
                    img |-> Some([src |-> Some(<<"/", "i.png">>), alt |-> None]),
                    link |-> None ]) >>,
      << WithBody([testid |-> "", classes |-> {"amp-container"}],
                  [ kind |-> "banner", header |-> Some(<<"M", " ">>), subtext |-> None,
                    cta |-> None,
                    img |-> Some([src |-> Some(<<"/", "i.png">>), alt |-> None]),
                    link |-> None ]) >>,
      << WithBody([testid |-> "", classes |-> {"CuratedCarousel"}],
                  [ kind |-> "carousel", header |-> Some(<<"M">>), price |-> None,
                    doc_img |-> None,
                    links |-> << [ href |-> <<"/", "p">>, title_span |-> Some(<<"M">>),
                                   label_before_title |-> <<>>,
                                   img |-> Some(<<"/", "i.png">>) ] >> ]) >> }

\* Variant of InstanceOf in which all threads use one shared instance.
InstanceOf_Shared(ws, w) == ws[1].extractor

\* the extractor instance the call of thread w works on: the one it
\* constructed (extractor = extractor_class())
InstanceOf(ws, w) == ws[w].extractor

WorkersInit ==
    /\ workers = [w \in Workers |-> IdleWorker]
    /\ EXTRACTORS = ImportedExtractors
    /\ reg_call = <<>>
    /\ page = <<>>
    /\ cpc = "idle"
    /\ toa_divs = <<>>
    /\ skyscraper_divs = <<>>
    /\ carousel_divs = <<>>
    /\ client = FALSE
    /\ results = <<>>
    /\ frag = [kind |-> "none"]
    /\ ret = <<>>
    /\ exc = <<>>
    /\ now = 0
    /\ input_dir = {}
    /\ day_file = [state |-> "absent", results |-> <<>>, last_updated |-> 0]
    /\ run = <<>>
    /\ NewIdle

\* extract_ads_from_html(html, client): parse, results = [], get_all_extractors()
WorkerCall(w) ==
    /\ workers[w].pc = "idle"
    /\ \E pg \in WorkerPages, cl \in BOOLEAN :
          workers' = [workers EXCEPT ![w] =
                        [IdleWorker EXCEPT !.pc = "iterate", !.fn = "extract_ads_from_html",
                                           !.page = pg, !.client = cl, !.k = 1]]
    /\ UNCHANGED <<EXTRACTORS, reg_call, cvars, evars, avars, nvars>>

\* the head of the loop over extractors.items(): construct the extractor of
\* the next type and set its client, or return results after the last type
WorkerConstruct(w) ==
    /\ workers[w].pc = "iterate"
    /\ IF workers[w].k > Len(EXTRACTORS)
       THEN workers' = [workers EXCEPT ![w].pc = "done",
                                       ![w].returned = <<workers[w].results>>]
       ELSE workers' = [workers EXCEPT ![w].pc = "extract",
                                       ![w].extractor =
                                           IF workers[w].client
                                           THEN [NewExtractor EXCEPT !.client = TRUE]
                                           ELSE NewExtractor]
    /\ UNCHANGED <<EXTRACTORS, reg_call, cvars, evars, avars, nvars>>

\* the branch of the current ad type: candidates and extraction loop
WorkerExtract(w) ==
    /\ workers[w].pc = "extract"
    /\ LET wk == workers[w]
           ad_type == EXTRACTORS[wk.k].key
           cl == InstanceOf(workers, w).client
       IN  \E outcomes \in [1..Len(ToaDivs(wk.page)) -> ImageSaveOutcomes] :
             LET loop ==
                   CASE ad_type = "TOA" -> TOALoop(wk.page, ToaDivs(wk.page), cl, outcomes)
                     [] ad_type = "Skyscraper" ->
                          [ records |-> SkyscraperLoop(wk.page, SkyscraperDivs(wk.page), cl),
                            exc |-> None ]
                     [] ad_type = "CuratedCarousel" ->
                          CarouselLoop(wk.page, CarouselDivs(wk.page), cl)
                     [] OTHER -> [records |-> <<>>, exc |-> None]
             IN  workers' = [workers EXCEPT
                     ![w].results = wk.results \o loop.records,
                     ![w].exc = loop.exc,
                     ![w].pc = IF loop.exc = None THEN "iterate" ELSE "raised",
                     ![w].k = wk.k + 1]
    /\ UNCHANGED <<EXTRACTORS, reg_call, cvars, evars, avars, nvars>>

\* extract_toa_ad(html): get_extractor("TOA")().extract(html)
WorkerExtractToaAd(w) ==
    /\ workers[w].pc = "idle"
    /\ DictGet(EXTRACTORS, "TOA") = <<"TOAExtractor">>
    /\ \E pg \in WorkerPages, outcome \in ImageSaveOutcomes :
          LET marked == { i \in 1..Len(pg) : pg[i].testid = "StandardTOA" }
              f == IF marked = {}
                   THEN TOAFragmentOf(WithBody([testid |-> "", classes |-> {}], NoBody),
                                      NewExtractor.client)
                   ELSE TOAFragmentOf(pg[Min(marked)], NewExtractor.client)
          IN  workers' = [workers EXCEPT ![w] =
                  [IdleWorker EXCEPT
                      !.fn = "extract_toa_ad", !.page = pg,
                      !.pc = IF TOAExtractRaises(f, outcome) = None THEN "done" ELSE "raised",
                      !.exc = TOAExtractRaises(f, outcome),
                      !.returned = IF TOAExtractRaises(f, outcome) = None
                                   THEN <<TOAExtractResult(f, outcome)>> ELSE <<>>]]
    /\ UNCHANGED <<EXTRACTORS, reg_call, cvars, evars, avars, nvars>>

\* the caller takes the result (or the exception) and may call again
WorkerReturn(w) ==
    /\ workers[w].pc \in {"done", "raised"}
    /\ workers' = [workers EXCEPT ![w] = IdleWorker]
    /\ UNCHANGED <<EXTRACTORS, reg_call, cvars, evars, avars, nvars>>

WorkersNext ==
    \E w \in Workers :
        \/ WorkerCall(w)
        \/ WorkerConstruct(w)
        \/ WorkerExtract(w)
        \/ WorkerExtractToaAd(w)
        \/ WorkerReturn(w)

SpecWorkers == WorkersInit /\ [][WorkersNext]_vars

-----------------------------------------------------------------------------
(* process_saved_html: the day-file aggregator *)

Procs == {1, 2}
Keywords == {"milk", "eggs"}

\* A saved page search_results_<kw>_<mtime>.html; outcome is what
\* extract_ads_from_html_file does with it: returns a result ("ok"), returns
\* None after a caught error ("none"), or lets an exception escape ("raise").
HtmlFiles == [kw : Keywords, mtime : 0..MaxClock, outcome : {"ok", "none", "raise"}]

AbsentFile == [state |-> "absent", results |-> <<>>, last_updated |-> 0]
\* a file json.load cannot parse (empty or truncated)
CorruptFile == [state |-> "corrupt", results |-> <<>>, last_updated |-> 0]

IdleRun == [pc |-> "idle", mode |-> "none", html_files |-> {},
            daily_results |-> <<>>, results |-> <<>>, wrote |-> FALSE, n |-> 0]

\* the PageResult extract_ads_from_html_file returns for a processable file
PageResult(f, ts) ==
    [keyword |-> f.kw, source_file |-> <<f.kw, f.mtime>>, timestamp |-> ts]

\* load_existing_results: {"results": []} unless the file exists and parses
load_existing_results(file) ==
    IF file.state = "valid" THEN file.results ELSE <<>>

\* Variant of Dumped that writes only the new results.
Dumped_Overwriting(daily, new, ts) ==
    [state |-> "valid", results |-> new, last_updated |-> ts]

\* json.dump of daily_results after the appends
Dumped(daily, new, ts) ==
    [state |-> "valid", results |-> daily \o new, last_updated |-> ts]

\* Variant of LatestFiles that takes min instead of max.
LatestFiles_Oldest(files) == { f \in files : \A g \in files : f.mtime <= g.mtime }

\* max(html_files, key=os.path.getmtime): a file of greatest mtime
LatestFiles(files) == { f \in files : \A g \in files : g.mtime <= f.mtime }

\* the orders in which glob may list a set of files
Orders(S) == { o \in [1..Cardinality(S) -> S] : \A i, j \in 1..Cardinality(S) : i # j => o[i] # o[j] }

\* results_list.sort(key=timestamp, reverse=True): stable, newest first
RECURSIVE SortNewestFirst(_)
SortNewestFirst(rs) ==
    IF rs = <<>> THEN <<>>
    ELSE LET m == Max({ rs[i].timestamp : i \in 1..Len(rs) })
         IN  SelectSeq(rs, LAMBDA r : r.timestamp = m)
             \o SortNewestFirst(SelectSeq(rs, LAMBDA r : r.timestamp # m))

\* Variant of GroupedResults that keeps only the newest result of each term.
RECURSIVE GroupedResults_LatestPerTerm(_)
GroupedResults_LatestPerTerm(rs) ==
    IF rs = <<>> THEN <<>>
    ELSE LET term == rs[1].keyword
             results_list == SortNewestFirst(SelectSeq(rs, LAMBDA r : r.keyword = term))
         IN  <<results_list[1]>>
             \o GroupedResults_LatestPerTerm(SelectSeq(rs, LAMBDA r : r.keyword # term))

\* what the loop over search_term_files appends: every result of every term,
\* term by term, each term's results newest first
RECURSIVE GroupedResults(_)
GroupedResults(rs) ==
    IF rs = <<>> THEN <<>>
    ELSE LET term == rs[1].keyword
             results_list == SortNewestFirst(SelectSeq(rs, LAMBDA r : r.keyword = term))
         IN  results_list \o GroupedResults(SelectSeq(rs, LAMBDA r : r.keyword # term))

\* the results of the files in glob order; the clock may pass one second
\* after the first k files
ExtractedResults(order, k, t) ==
    LET stamped == [i \in 1..Len(order) |->
                       PageResult(order[i], IF i <= k THEN t ELSE t + 1)]
    IN  SelectSeq(stamped, LAMBDA r :
            \E f \in Range(order) : f.outcome = "ok" /\ r.source_file = <<f.kw, f.mtime>>)

Running(p) == run[p].pc \in {"load", "write"}
RunsStarted == run[1].n + run[2].n

AggInit ==
    /\ now = 0
    /\ input_dir = {}
    /\ day_file \in {AbsentFile, CorruptFile}
    /\ run = [p \in Procs |-> IdleRun]
    /\ page = <<>>
    /\ cpc = "idle"
    /\ toa_divs = <<>>
    /\ skyscraper_divs = <<>>
    /\ carousel_divs = <<>>
    /\ frag = [kind |-> "none"]
    /\ ret = <<>>
    /\ exc = <<>>
    /\ client = FALSE
    /\ results = <<>>
    /\ EXTRACTORS = ImportedExtractors
    /\ reg_call = <<>>
    /\ workers = <<>>
    /\ NewIdle

Tick ==
    /\ now < MaxClock
    /\ now' = now + 1
    /\ UNCHANGED <<input_dir, day_file, run, cvars, evars, rvars, nvars>>

\* kroger_search_and_capture saves the page of a search
SaveHtml ==
    /\ Cardinality(input_dir) < MaxFiles
    /\ \E kw \in Keywords, outcome \in {"ok", "none", "raise"} :
          /\ ~ \E f \in input_dir : f.kw = kw /\ f.mtime = now
          /\ input_dir' = input_dir \cup {[kw |-> kw, mtime |-> now, outcome |-> outcome]}
    /\ UNCHANGED <<now, day_file, run, cvars, evars, rvars, nvars>>

\* process_latest_html_file up to the call of load_existing_results
BeginLatest(p) ==
    /\ ~Running(p)
    /\ RunsStarted < MaxRuns
    /\ \/ /\ input_dir = {}
          /\ run' = [run EXCEPT ![p] = [IdleRun EXCEPT !.pc = "done", !.mode = "latest",
                                                       !.n = run[p].n + 1]]
       \/ \E latest_html \in LatestFiles(input_dir) :
            run' = [run EXCEPT ![p] =
                      [ pc |-> IF latest_html.outcome = "ok" THEN "load" ELSE "done",
                        mode |-> "latest",
                        html_files |-> input_dir,
                        daily_results |-> <<>>,
                        results |-> IF latest_html.outcome = "ok"
                                    THEN <<PageResult(latest_html, now)>> ELSE <<>>,
                        wrote |-> FALSE,
                        n |-> run[p].n + 1 ]]
    /\ UNCHANGED <<now, input_dir, day_file, cvars, evars, rvars, nvars>>

\* process_all_html_files up to the call of load_existing_results
BeginAll(p) ==
    /\ ~Running(p)
    /\ RunsStarted < MaxRuns
    /\ run' = [run EXCEPT ![p] =
                 [IdleRun EXCEPT !.pc = IF input_dir = {} THEN "done" ELSE "load",
                                 !.mode = "all",
                                 !.html_files = input_dir,
                                 !.n = run[p].n + 1]]
    /\ UNCHANGED <<now, input_dir, day_file, cvars, evars, rvars, nvars>>

\* daily_results = load_existing_results(results_path)
Load(p) ==
    /\ run[p].pc = "load"
    /\ run' = [run EXCEPT ![p].pc = "write",
                          ![p].daily_results = load_existing_results(day_file)]
    /\ UNCHANGED <<now, input_dir, day_file, cvars, evars, rvars, nvars>>

\* process_latest_html_file: append, set last_updated, json.dump
WriteLatest(p) ==
    /\ run[p].pc = "write"
    /\ run[p].mode = "latest"
    /\ day_file' = Dumped(run[p].daily_results, run[p].results, now)
    /\ run' = [run EXCEPT ![p].pc = "done", ![p].wrote = TRUE]
    /\ UNCHANGED <<now, input_dir, cvars, evars, rvars, nvars>>

\* process_all_html_files: extract every file, group, append, json.dump
WriteAll(p) ==
    /\ run[p].pc = "write"
    /\ run[p].mode = "all"
    /\ IF \E f \in run[p].html_files : f.outcome = "raise"
       THEN /\ run' = [run EXCEPT ![p].pc = "done"]
            /\ UNCHANGED <<now, day_file, nvars>>
       ELSE \E order \in Orders(run[p].html_files), k \in 0..Cardinality(run[p].html_files) :
              /\ k < Len(order) => now < MaxClock
              /\ LET appended == GroupedResults(ExtractedResults(order, k, now))
                     end == IF k < Len(order) THEN now + 1 ELSE now
                 IN  /\ day_file' = Dumped(run[p].daily_results, appended, end)
                     /\ run' = [run EXCEPT ![p].pc = "done", ![p].wrote = TRUE,
                                           ![p].results = appended]
                     /\ now' = end
    /\ UNCHANGED <<input_dir, cvars, evars, rvars, nvars>>

\* aggregator runs of one client directory, possibly overlapping
AggNext ==
    \/ Tick
    \/ SaveHtml
    \/ \E p \in Procs : BeginLatest(p)
    \/ \E p \in Procs : BeginAll(p)
    \/ \E p \in Procs : Load(p)
    \/ \E p \in Procs : WriteLatest(p)
    \/ \E p \in Procs : WriteAll(p)

SpecAgg == AggInit /\ [][AggNext]_vars

\* aggregator runs that do not overlap: a run starts when no other is running
AggSeqNext ==
    \/ Tick
    \/ SaveHtml
    \/ \E p \in Procs : (\A q \in Procs : ~Running(q)) /\ BeginLatest(p)
    \/ \E p \in Procs : (\A q \in Procs : ~Running(q)) /\ BeginAll(p)
    \/ \E p \in Procs : Load(p)
    \/ \E p \in Procs : WriteLatest(p)
    \/ \E p \in Procs : WriteAll(p)

SpecAggSeq == AggInit /\ [][AggSeqNext]_vars

\* extract_ads_from_html called repeatedly on one page while the clock runs
RepeatNext == ClassifyNext \/ CallAgain \/ Tick

SpecRepeat == ContentInit /\ [][RepeatNext]_vars

-----------------------------------------------------------------------------
(* Selector strategies of each ad type, most specific first, as match sets *)

TOAStrategies(pg) ==
    << Select(pg, {e \in Range(pg) : TestIdIs("StandardTOA", e)}),
       Select(pg, {e \in Range(pg) : HasClass("Standard-TOA", e)}),
       Select(pg, {e \in Range(pg) : ClassHas("TOA", e)}) >>

SkyscraperFallbacks(pg) ==
    << Select(pg, {e \in Range(pg) : TestIdIs("monetization/search-skyscraper-top", e)}),
       Select(pg, {e \in Range(pg) : HasClass("amp-container", e) /\ TestIdHas("skyscraper", e)}),
       Select(pg, {e \in Range(pg) : HasClass("amp-container", e)}) >>

SkyscraperStrategies(pg) ==
    << Select(pg, {e \in Range(pg) : TestIdIs("monetization/search-page-top", e)}),
       Select(pg, {e \in Range(pg) : TestIdIs("SkyscraperTOA", e)}) >>
    \o SkyscraperFallbacks(pg)

CarouselStrategies(pg) ==
    << Select(pg, {e \in Range(pg) : HasClass("CuratedCarousel", e) /\ HasClass("py-32", e)
                             /\ HasClass("bg-accent-more-subtle", e)}),
       Select(pg, {e \in Range(pg) : HasClass("CuratedCarousel", e)}),
       Select(pg, {e \in Range(pg) : ClassHas("Carousel", e)}),
       Select(pg, {e \in Range(pg) : TestIdHas("carousel", e)}) >>

\* The match set of the first strategy that matches at least one element.
FirstMatching(ss) ==
    IF \E k \in 1..Len(ss) : ss[k] # <<>>
    THEN ss[CHOOSE k \in 1..Len(ss) : ss[k] # <<>> /\ \A j \in 1..(k-1) : ss[j] = <<>>]
    ELSE <<>>

MatchesSkyscraperSelector(pg, i) ==
    \E k \in 1..Len(SkyscraperStrategies(pg)) : i \in Range(SkyscraperStrategies(pg)[k])

-----------------------------------------------------------------------------
(* C1: a div marked data-testid="StandardTOA" that also matches a Skyscraper *)
(* selector is a TOA candidate and is never a Skyscraper candidate.         *)
C1_StandardTOAExclusive ==
    cpc = "done" =>
        \A i \in 1..Len(page) :
            (page[i].testid = "StandardTOA" /\ MatchesSkyscraperSelector(page, i))
                => (i \in Range(toa_divs) /\ i \notin Range(skyscraper_divs))

\* A StandardTOA div with class amp-container on a page whose Skyscraper list
\* comes from the div.amp-container fallback.
C1_Witness ==
    /\ cpc = "done"
    /\ skyscraper_divs # <<>>
    /\ \E i \in 1..Len(page) :
          /\ page[i].testid = "StandardTOA"
          /\ "amp-container" \in page[i].classes
          /\ i \in Range(toa_divs)
    /\ \A i \in Range(skyscraper_divs) : "amp-container" \in page[i].classes

(* C2: the candidate lists of TOA, Skyscraper and CuratedCarousel are       *)
(* pairwise disjoint (as stated; the code lets one div be a candidate of    *)
(* two types).                                                             *)
C2_PairwiseDisjoint ==
    /\ Range(toa_divs) \cap Range(skyscraper_divs) = {}
    /\ Range(toa_divs) \cap Range(carousel_divs) = {}
    /\ Range(skyscraper_divs) \cap Range(carousel_divs) = {}

(* C3 as stated: each type's list is the match set of exactly one strategy, *)
(* the first that matches at least one element.                            *)
C3_Original ==
    cpc = "done" =>
        /\ toa_divs = FirstMatching(TOAStrategies(page))
        /\ skyscraper_divs = FirstMatching(SkyscraperStrategies(page))
        /\ carousel_divs = FirstMatching(CarouselStrategies(page))

(* C3 amended: the TOA and CuratedCarousel lists are the match set of the   *)
(* first strategy that matches; the Skyscraper list is the page-top matches *)
(* followed by the SkyscraperTOA matches when there are any, and otherwise  *)
(* the match set of the first matching fallback less the divs marked        *)
(* StandardTOA.                                                             *)
C3_FirstMatchingStrategy ==
    cpc = "done" =>
        /\ toa_divs = FirstMatching(TOAStrategies(page))
        /\ carousel_divs = FirstMatching(CarouselStrategies(page))
        /\ LET top == SkyscraperStrategies(page)[1] \o SkyscraperStrategies(page)[2]
           IN  skyscraper_divs =
                 IF top # <<>> THEN top
                 ELSE NotStandardTOA(page, FirstMatching(SkyscraperFallbacks(page)))

\* A page where the TOA list comes from a fallback although a later, looser
\* strategy matches more, and the Skyscraper list merges two strategies.
C3_Witness ==
    /\ cpc = "done"
    /\ TOAStrategies(page)[1] = <<>>
    /\ TOAStrategies(page)[2] # <<>>
    /\ toa_divs = TOAStrategies(page)[2]
    /\ Len(TOAStrategies(page)[3]) > Len(toa_divs)
    /\ SkyscraperStrategies(page)[1] # <<>>
    /\ SkyscraperStrategies(page)[2] # <<>>
    /\ Len(skyscraper_divs) = 2

-----------------------------------------------------------------------------
(* C4 as stated: CarouselExtractor.extract returns None when no product     *)
(* link yields a title; every carousel record it returns has a product.     *)
C4_RecordHasProducts ==
    (frag.kind = "carousel" /\ ret # <<>> /\ ret[1] # None)
        => ret[1][1].products # <<>>

(* C5 as stated: the brand of a TOA record is the brand the alt text of the *)
(* banner image yields, whatever the href and the image's other attributes; *)
(* else the brand of the href slug; absent only when both yield nothing.    *)
C5_AltTextBrandFirst ==
    (frag.kind = "toa" /\ ret # <<>> /\ ret[1] # None) =>
        LET alt_brand  == IF frag.img = None THEN None
                          ELSE extract_brand_from_text(frag.img[1].alt)
            href_brand == IF frag.link = None THEN None
                          ELSE extract_brand_from_href(frag.link[1].href)
        IN  ret[1][1].brand = IF Truthy(alt_brand) THEN alt_brand
                              ELSE IF Truthy(href_brand) THEN href_brand
                              ELSE None

-----------------------------------------------------------------------------
IsPrefix(a, b) == Len(a) <= Len(b) /\ SubSeq(b, 1, Len(a)) = a

SourceOf(f) == <<f.kw, f.mtime>>

(* C6: a run of the aggregator leaves every PageResult the day file held    *)
(* before in place, unchanged and in order, and only adds entries after     *)
(* them (runs that do not overlap).                                         *)
C6_AppendOnly ==
    [][IsPrefix(day_file.results, day_file'.results)]_vars

\* a run has written its results after the entries of an earlier run
C6_Witness ==
    \E p \in Procs :
        /\ run[p].pc = "done" /\ run[p].wrote
        /\ run[p].daily_results # <<>>
        /\ run[p].results # <<>>
        /\ day_file.results = run[p].daily_results \o run[p].results

(* C7 as stated: when overlapping runs on one day file have finished, the   *)
(* file holds the PageResults each of them appended.                        *)
C7_NoLostUpdate ==
    \A p \in Procs :
        (run[p].pc = "done" /\ run[p].wrote)
            => \A i \in 1..Len(run[p].results) :
                   run[p].results[i] \in Range(day_file.results)

(* C8: a process_all_html_files run that starts from an absent or empty day *)
(* file leaves exactly one entry per processable HTML file, also when       *)
(* several files share a search term.                                       *)
C8_ProcessAllRoundTrip ==
    [][\A p \in Procs :
          ( /\ run[p].pc = "write" /\ run[p].mode = "all"
            /\ run[p].daily_results = <<>>
            /\ run'[p].wrote )
          => LET ok == { f \in run[p].html_files : f.outcome = "ok" }
                 reloaded == load_existing_results(day_file')
             IN  /\ Len(reloaded) = Cardinality(ok)
                 /\ \A f \in ok :
                      Cardinality({ i \in 1..Len(reloaded) :
                                      reloaded[i].source_file = SourceOf(f) }) = 1
      ]_vars

\* a completed run on an empty day file that kept two results of one term
C8_Witness ==
    \E p \in Procs :
        /\ run[p].pc = "done" /\ run[p].mode = "all" /\ run[p].wrote
        /\ run[p].daily_results = <<>>
        /\ Len(run[p].results) = 2
        /\ run[p].results[1].keyword = run[p].results[2].keyword
        /\ load_existing_results(day_file) = run[p].results

\* the most recently modified of a set of files
MostRecent(files) == { f \in files : \A g \in files : g.mtime <= f.mtime }

(* C9 as stated: a process_latest_html_file run adds, for every keyword     *)
(* with a file in the directory, the result of that keyword's most recent   *)
(* file, and no result of an older file of the keyword.                     *)
C9_LatestPerKeyword ==
    \A p \in Procs :
        ( /\ run[p].pc = "done" /\ run[p].mode = "latest"
          /\ \A f \in run[p].html_files : f.outcome = "ok" )
        => \A kw \in Keywords :
             LET of_kw == { f \in run[p].html_files : f.kw = kw }
             IN  /\ of_kw # {} =>
                      \E i \in 1..Len(run[p].results) :
                          \E f \in MostRecent(of_kw) :
                              run[p].results[i].source_file = SourceOf(f)
                 /\ \A f \in of_kw \ MostRecent(of_kw) :
                      \A i \in 1..Len(run[p].results) :
                          run[p].results[i].source_file # SourceOf(f)

(* C9 amended: a process_latest_html_file run adds at most one result, that *)
(* of a most recently modified file of the whole directory whatever its     *)
(* keyword, and adds it exactly when that file can be processed.            *)
C9_LatestFileOnly ==
    \A p \in Procs :
        (run[p].pc = "done" /\ run[p].mode = "latest") =>
            /\ Len(run[p].results) <= 1
            /\ \A i \in 1..Len(run[p].results) :
                 \E f \in run[p].html_files :
                     /\ \A g \in run[p].html_files : g.mtime <= f.mtime
                     /\ f.outcome = "ok"
                     /\ run[p].results[i].source_file = SourceOf(f)
            /\ run[p].wrote <=> Len(run[p].results) = 1
            /\ ( run[p].html_files # {}
                 /\ \A f \in run[p].html_files :
                       (\A g \in run[p].html_files : g.mtime <= f.mtime)
                           => f.outcome = "ok" )
               => run[p].wrote

\* a latest-only run over a directory with an older file of another keyword
C9_Witness ==
    \E p \in Procs :
        /\ run[p].pc = "done" /\ run[p].mode = "latest" /\ run[p].wrote
        /\ \E f, g \in run[p].html_files :
              /\ f.kw # g.kw /\ f.mtime < g.mtime
              /\ f.outcome = "ok" /\ g.outcome = "ok"
              /\ run[p].results = <<PageResult(g, run[p].results[1].timestamp)>>
        /\ day_file.results = run[p].daily_results \o run[p].results

NoDuplicates(rs) ==
    \A i, j \in 1..Len(rs) :
        (rs[i].keyword = rs[j].keyword /\ rs[i].source_file = rs[j].source_file)
            => i = j

(* C10 as stated: a process_all_html_files run that processes HTML files    *)
(* again into the same day file adds no second entry for a search term and  *)
(* source file the day file already records.                                *)
C10_ReprocessingDeduplicates ==
    [][\A p \in Procs :
          ( /\ run[p].pc = "write" /\ run[p].mode = "all" /\ run'[p].wrote
            /\ NoDuplicates(run[p].daily_results) )
          => NoDuplicates(day_file'.results)
      ]_vars

-----------------------------------------------------------------------------
(* C11 as stated: a process_all_html_files run skips every file whose       *)
(* processing fails, whatever the failure, still appends the PageResult of  *)
(* every other file, and still writes the day file.                         *)
C11_BadPageSkipped ==
    [][\A p \in Procs :
          ( /\ run[p].pc = "write" /\ run[p].mode = "all"
            /\ run'[p].pc = "done" )
          => /\ run'[p].wrote
             /\ \A f \in run[p].html_files :
                  f.outcome = "ok" =>
                      \E i \in 1..Len(day_file'.results) :
                          day_file'.results[i].source_file = SourceOf(f)
      ]_vars

-----------------------------------------------------------------------------
\* the class of the latest register_extractor call for name among the first k
\* calls, <<>> when there is none
LastRegistered(calls, k, name) ==
    LET regs == { i \in 1..k : calls[i].op = "register_extractor"
                               /\ calls[i].ad_type = name }
    IN  IF regs = {} THEN <<>> ELSE <<calls[Max(regs)].extractor_class>>

(* C19: after any sequence of registry calls, the registry maps each name   *)
(* to the class of the most recent register_extractor call for it, holds    *)
(* at most one entry per name, and every get_extractor call returned that   *)
(* class, or None for a name not registered before the call.                *)
C19_LastRegistrationWins ==
    /\ \A t \in ExtractorNames :
          /\ DictGet(EXTRACTORS, t) = LastRegistered(reg_call, Len(reg_call), t)
          /\ Cardinality({ i \in 1..Len(EXTRACTORS) : EXTRACTORS[i].key = t }) <= 1
    /\ \A i \in 1..Len(reg_call) :
          /\ reg_call[i].op = "get_extractor" =>
                reg_call[i].returned = LastRegistered(reg_call, i - 1, reg_call[i].ad_type)
          /\ reg_call[i].op = "get_all_extractors" =>
                \A t \in ExtractorNames :
                    Cardinality({ j \in 1..Len(reg_call[i].returned) :
                                     reg_call[i].returned[j].key = t }) <= 1

\* a name registered twice with different classes and then looked up, after
\* which another name is still not found
C19_Witness ==
    /\ Len(reg_call) = 3
    /\ reg_call[1].op = "register_extractor"
    /\ reg_call[2].op = "register_extractor"
    /\ reg_call[1].ad_type = reg_call[2].ad_type
    /\ reg_call[1].extractor_class # reg_call[2].extractor_class
    /\ reg_call[3].op = "get_extractor"
    /\ reg_call[3].ad_type = reg_call[1].ad_type
    /\ reg_call[3].returned = <<reg_call[2].extractor_class>>
    /\ Len(EXTRACTORS) = 1
    /\ \E t \in ExtractorNames : DictGet(EXTRACTORS, t) = <<>>

-----------------------------------------------------------------------------
(* C13 as stated: extract() of the TOA, Skyscraper and CuratedCarousel      *)
(* extractors is total: for every fragment it returns a record or None and  *)
(* no exception escapes it.                                                 *)
C13_ExtractTotal ==
    frag.kind \in {"toa", "skyscraper", "carousel"} => exc = <<>>

\* a StandardTOA fragment with header, subtext, CTA, an image with a src and
\* a link with an href
FullTOAFragment(f) ==
    /\ f.kind = "toa" /\ f.toa_div
    /\ f.header # None /\ f.subtext # None /\ f.cta # None
    /\ f.img # None /\ Truthy(f.img[1].src)
    /\ f.link # None /\ Truthy(f.link[1].href)

\* the alt text contains "by" in some letter case
AltHasBy(f) ==
    /\ f.img[1].alt # None
    /\ ByPositions(Lower(f.img[1].alt[1])) # {}

AfterLastByAnyCase(s) == SubSeq(s, Max(ByPositions(Lower(s))) + 2, Len(s))

(* C18 as stated: extract_brand_from_text finds "by" in any letter case and *)
(* returns the text after its last occurrence, trimmed, whitespace          *)
(* collapsed, trailing periods removed; absent when "by" does not occur.    *)
(* Stated on the brand TOAExtractor.extract takes from the alt text of a    *)
(* banner without a link.                                                   *)
C18_CaseInsensitiveBy ==
    ( /\ frag.kind = "toa" /\ frag.toa_div /\ ret # <<>>
      /\ frag.img # None /\ Truthy(frag.img[1].src) /\ Truthy(frag.img[1].alt)
      /\ frag.link = None )
    => LET text == frag.img[1].alt[1]
           expected == IF ByPositions(Lower(text)) = {} THEN None
                       ELSE Some(RStripPeriods(CollapseSpaces(Strip(AfterLastByAnyCase(text)))))
       IN  ret[1][1].brand = IF Truthy(expected) THEN expected ELSE None

-----------------------------------------------------------------------------
(* C12 as stated: extract_ads_from_html never raises: a failure inside one  *)
(* candidate's extractor call counts as "no ad" for that candidate, and the *)
(* call goes on to return its list of records.                              *)
C12_NeverRaises ==
    cpc # "raised" /\ exc = <<>>

\* an absolute URL starts with a scheme and host
IsAbsoluteUrl(u) == u # <<>> /\ Head(u) \in {"https://www.kroger.com", "https://cdn/"}

(* C14 as stated: the image_url of every TOA and Skyscraper record in the   *)
(* results of extract_ads_from_html is absent or an absolute URL.           *)
C14_ImageUrlAbsolute ==
    \A i \in 1..Len(results) :
        results[i].type \in {"TOA", "Skyscraper"} =>
            (results[i].image_url = None \/ IsAbsoluteUrl(results[i].image_url[1]))

\* the elements of a candidate list are in the order of the page
InDocumentOrder(divs) == \A j, k \in 1..Len(divs) : j < k => divs[j] < divs[k]

(* C15 as stated: each type's candidate list is in document order, also a   *)
(* Skyscraper list that holds page-top elements and hybrid SkyscraperTOA    *)
(* elements.                                                                *)
C15_DocumentOrder ==
    /\ InDocumentOrder(toa_divs)
    /\ InDocumentOrder(skyscraper_divs)
    /\ InDocumentOrder(carousel_divs)

\* the Skyscraper branch of the call has run
SkyscraperBranchRan ==
    \/ cpc \in {"CuratedCarousel", "done"}
    \/ cpc = "raised" /\ exc = Some("SelectorSyntaxError")

\* the records of one type, in the order of results
RecordsOfType(t) == SelectSeq(results, LAMBDA r : r.type = t)

(* C16: once the Skyscraper branch of extract_ads_from_html has run, every  *)
(* element marked data-testid="SkyscraperTOA" is a Skyscraper candidate,    *)
(* every Skyscraper candidate has its record of type Skyscraper in results, *)
(* and no record of type TOA comes from a SkyscraperTOA element.            *)
C16_HybridIsSkyscraper ==
    SkyscraperBranchRan =>
        /\ Len(RecordsOfType("Skyscraper")) = Len(skyscraper_divs)
        /\ \A i \in 1..Len(page) :
              page[i].testid = "SkyscraperTOA" =>
                  /\ \E k \in 1..Len(skyscraper_divs) :
                        /\ skyscraper_divs[k] = i
                        /\ RecordsOfType("Skyscraper")[k].type = "Skyscraper"
                  /\ \A j \in 1..Len(results) :
                        results[j].type = "TOA" => results[j].html # page[i]

\* a hybrid element the TOA fallback div[class*="TOA"] also selects, on a
\* page whose call returned with a Skyscraper record and no TOA record
C16_Witness ==
    /\ cpc = "done"
    /\ \E i \in 1..Len(page) :
          /\ page[i].testid = "SkyscraperTOA"
          /\ page[i].body.img # None
          /\ i \in Range(toa_divs)
          /\ i \in Range(skyscraper_divs)
    /\ RecordsOfType("Skyscraper") # <<>>
    /\ RecordsOfType("TOA") = <<>>

-----------------------------------------------------------------------------
\* what extract_ads_from_html gives for a page when it runs alone: the
\* records of TOA, Skyscraper and CuratedCarousel in that order, up to the
\* exception that ends the call
AloneResult(pg, cl, outcomes) ==
    LET toa == TOALoop(pg, ToaDivs(pg), cl, outcomes)
        sky == SkyscraperLoop(pg, SkyscraperDivs(pg), cl)
        car == CarouselLoop(pg, CarouselDivs(pg), cl)
    IN  IF toa.exc # None THEN [results |-> toa.records, exc |-> toa.exc]
        ELSE [results |-> toa.records \o sky \o car.records, exc |-> car.exc]

(* C20: with the three extractors registered at startup, no call of         *)
(* extract_ads_from_html or extract_toa_ad changes the registry, and under  *)
(* every interleaving of the calls of concurrent threads each finished call *)
(* of extract_ads_from_html has the result it has when it runs alone on its *)
(* own page and client.                                                     *)
C20_NoSharedState ==
    /\ EXTRACTORS = ImportedExtractors
    /\ \A w \in Workers :
          ( /\ workers[w].fn = "extract_ads_from_html"
            /\ workers[w].pc \in {"done", "raised"} )
          => \E outcomes \in [1..Len(ToaDivs(workers[w].page)) -> ImageSaveOutcomes] :
                LET alone == AloneResult(workers[w].page, workers[w].client, outcomes)
                IN  /\ workers[w].results = alone.results
                    /\ workers[w].exc = alone.exc
                    /\ workers[w].pc = "done" <=> alone.exc = <<>>
                    /\ workers[w].pc = "done" => workers[w].returned = <<alone.results>>

\* a call with a client that returned records while the other thread, which
\* has no client, is in the middle of its own call
C20_Witness ==
    \E w, v \in Workers :
        /\ w # v
        /\ workers[w].fn = "extract_ads_from_html" /\ workers[w].pc = "done"
        /\ workers[w].client /\ workers[w].results # <<>>
        /\ workers[v].fn = "extract_ads_from_html" /\ workers[v].pc = "extract"
        /\ ~workers[v].client /\ workers[v].k = 2 /\ workers[v].results # <<>>

-----------------------------------------------------------------------------
(* C29: when extract_ads_from_html returns, it holds exactly one record of  *)
(* type Skyscraper per Skyscraper candidate, also for the candidates for    *)
(* which SkyscraperExtractor.extract returns None; a TOA or CuratedCarousel *)
(* candidate has a record only if its extractor recognises the fragment.    *)
C29_SkyscraperNeverDropped ==
    cpc = "done" =>
        /\ Len(RecordsOfType("Skyscraper")) = Len(skyscraper_divs)
        /\ Len(RecordsOfType("TOA")) =
              Cardinality({ k \in 1..Len(toa_divs) :
                              page[toa_divs[k]].testid = "StandardTOA" })
        /\ Len(RecordsOfType("CuratedCarousel")) =
              Cardinality({ k \in 1..Len(carousel_divs) :
                              IsCarouselElement(page[carousel_divs[k]]) })
        /\ Len(results) = Len(RecordsOfType("TOA")) + Len(RecordsOfType("Skyscraper"))
                          + Len(RecordsOfType("CuratedCarousel"))

\* a returned call with a Skyscraper candidate the extractor does not
\* recognise (no amp-container class, no "skyscraper" in the test id) and a
\* TOA fallback candidate that gave no record
C29_Witness ==
    /\ cpc = "done"
    /\ \E k \in 1..Len(skyscraper_divs) :
          /\ "amp-container" \notin page[skyscraper_divs[k]].classes
          /\ page[skyscraper_divs[k]].testid = "monetization/search-page-top"
          /\ page[skyscraper_divs[k]].body.img # None
    /\ Len(RecordsOfType("Skyscraper")) = Len(skyscraper_divs)
    /\ toa_divs # <<>>
    /\ RecordsOfType("TOA") = <<>>

(* C30: every record of type TOA comes from an element marked               *)
(* data-testid="StandardTOA": on a page without such an element the TOA     *)
(* fallback candidates give no TOA record, and on every page there are at   *)
(* most as many TOA records as elements with that marker.                   *)
C30_TOAOnlyFromStandardTOA ==
    LET marked == { i \in 1..Len(page) : page[i].testid = "StandardTOA" }
    IN  /\ \A j \in 1..Len(results) :
              results[j].type = "TOA" => results[j].html.testid = "StandardTOA"
        /\ Len(RecordsOfType("TOA")) <= Cardinality(marked)
        /\ marked = {} => RecordsOfType("TOA") = <<>>

\* a returned call on a page without the marker whose TOA candidates come
\* from the fallback div.Standard-TOA and have content
C30_Witness ==
    /\ cpc = "done"
    /\ \A i \in 1..Len(page) : page[i].testid # "StandardTOA"
    /\ \E k \in 1..Len(toa_divs) :
          /\ "Standard-TOA" \in page[toa_divs[k]].classes
          /\ page[toa_divs[k]].body.img # None
    /\ RecordsOfType("TOA") = <<>>
    /\ results # <<>>

-----------------------------------------------------------------------------
(* C22 as stated: a failure to fetch or save the creative image is          *)
(* contained in TOAExtractor.extract: the call on a StandardTOA fragment    *)
(* with an image still returns the record, no exception escapes, message,   *)
(* description, cta, image_url, brand and href are what a successful save   *)
(* gives, and image_path is either the saved path or absent.                *)
C22_ImageFailureContained ==
    ( /\ frag.kind = "toa" /\ frag.toa_div
      /\ frag.img # None /\ Truthy(frag.img[1].src)
      /\ (ret # <<>> \/ exc # <<>>) )
    => /\ exc = <<>>
       /\ ret[1] # None
       /\ LET got  == ret[1][1]
              good == TOAExtractResult(frag, "full_and_toa")[1]
          IN  /\ \A k \in {"message", "description", "cta", "image_url", "brand", "href"} :
                    got[k] = good[k]
              /\ got.image_path \in {None, good.image_path}

-----------------------------------------------------------------------------
\* the records of type t in a results list; the paths of the TOA images
\* that were downloaded depend on the network and are left out
ComparableOfType(rs, t) ==
    LET sel == SelectSeq(rs, LAMBDA r : r.type = t)
    IN  [k \in 1..Len(sel) |->
            IF t = "TOA"
            THEN [sel[k] EXCEPT !.image_path = None, !.toa_image_path = None]
            ELSE sel[k]]

(* C21 as stated: a call of extract_ads_from_html that returns gives, for   *)
(* each ad type, the same list of records in the same order as every        *)
(* earlier call on the same HTML with the same client.                      *)
C21_Idempotent ==
    cpc = "done" =>
        \A i \in 1..Len(earlier) : \A t \in ExtractorNames :
            ComparableOfType(earlier[i], t) = ComparableOfType(results, t)

-----------------------------------------------------------------------------
(* scheduler_entry.py: every launch is a process that opens                 *)
(* logs/scheduler.lock, tries a non-blocking exclusive flock on it, and     *)
(* either exits or runs scheduler_daemon.py while it holds the lock.        *)

Launches == {"l1", "l2", "l3"}

NewLaunch == [pc |-> "new", found_held |-> FALSE, ran_daemon |-> FALSE, status |-> <<>>]

\* Variant of FlockGranted that grants the lock whoever holds it (a shared lock).
FlockGranted_Shared(holder) == TRUE

\* fcntl.flock(fd, LOCK_EX | LOCK_NB) succeeds iff no other open file
\* description holds a lock on the file
FlockGranted(holder) == holder = <<>>

LockInit ==
    /\ launch = [p \in Launches |-> NewLaunch]
    /\ lock = <<>>
    /\ pid_file = <<>>
    /\ CoreIdle
    /\ RepeatIdle
    /\ DaemonIdle
    /\ RunNowIdle
    /\ CaptureIdle

\* _lock_f = open(LOCK_PATH, "w")
OpenLockFile(p) ==
    /\ launch[p].pc = "new"
    /\ launch' = [launch EXCEPT ![p].pc = "opened"]
    /\ UNCHANGED <<lock, pid_file, cvars, evars, avars, rvars, pvars, dvars, svars, kvars>>

\* try: fcntl.flock(...) except BlockingIOError: sys.exit(0)
TryLock(p) ==
    /\ launch[p].pc = "opened"
    /\ IF FlockGranted(lock)
       THEN /\ lock' = <<p>>
            /\ launch' = [launch EXCEPT ![p].pc = "locked"]
       ELSE /\ lock' = lock
            /\ launch' = [launch EXCEPT ![p].pc = "exited", ![p].found_held = TRUE,
                                        ![p].status = <<0>>]
    /\ UNCHANGED <<pid_file, cvars, evars, avars, rvars, pvars, dvars, svars, kvars>>

\* PID_PATH.write_text(str(os.getpid())) and the atexit registration
WritePid(p) ==
    /\ launch[p].pc = "locked"
    /\ pid_file' = <<p>>
    /\ launch' = [launch EXCEPT ![p].pc = "guarded"]
    /\ UNCHANGED <<lock, cvars, evars, avars, rvars, pvars, dvars, svars, kvars>>

\* the daemon file is looked up: sys.exit(1) when it is missing, else it is
\* compiled and executed as __main__
ExecDaemon(p) ==
    /\ launch[p].pc = "guarded"
    /\ \E exists \in BOOLEAN :
          launch' = IF exists
                    THEN [launch EXCEPT ![p].pc = "daemon", ![p].ran_daemon = TRUE]
                    ELSE [launch EXCEPT ![p].pc = "exiting", ![p].status = <<1>>]
    /\ UNCHANGED <<lock, pid_file, cvars, evars, avars, rvars, pvars, dvars, svars, kvars>>

\* scheduler_daemon's main() ends: after an interrupt it returns (status 0),
\* after a fatal error it calls sys.exit(1)
DaemonEnds(p) ==
    /\ launch[p].pc = "daemon"
    /\ \E st \in {0, 1} :
          launch' = [launch EXCEPT ![p].pc = "exiting", ![p].status = <<st>>]
    /\ UNCHANGED <<lock, pid_file, cvars, evars, avars, rvars, pvars, dvars, svars, kvars>>

\* _release_lock_and_cleanup, run at exit: unlock, close, unlink the pid file
ReleaseLockAndCleanup(p) ==
    /\ launch[p].pc = "exiting"
    /\ lock' = IF lock = <<p>> THEN <<>> ELSE lock
    /\ pid_file' = <<>>
    /\ launch' = [launch EXCEPT ![p].pc = "exited"]
    /\ UNCHANGED <<cvars, evars, avars, rvars, pvars, dvars, svars, kvars>>

\* the process is killed: no exit handler runs, the kernel closes the file
\* and with it drops the lock; the pid file stays
Killed(p) ==
    /\ launch[p].pc \in {"locked", "guarded", "daemon", "exiting"}
    /\ lock' = IF lock = <<p>> THEN <<>> ELSE lock
    /\ launch' = [launch EXCEPT ![p].pc = "killed", ![p].status = <<>>]
    /\ UNCHANGED <<pid_file, cvars, evars, avars, rvars, pvars, dvars, svars, kvars>>

LockNext ==
    \E p \in Launches :
        \/ OpenLockFile(p)
        \/ TryLock(p)
        \/ WritePid(p)
        \/ ExecDaemon(p)
        \/ DaemonEnds(p)
        \/ ReleaseLockAndCleanup(p)
        \/ Killed(p)

SpecLock == LockInit /\ [][LockNext]_vars

\* the launches that are past a successful flock and have not yet released it
PastFlock == { p \in Launches : launch[p].pc \in {"locked", "guarded", "daemon", "exiting"} }

(* C23: at most one scheduler_entry process at a time is past a successful  *)
(* flock on logs/scheduler.lock, so at most one runs scheduler_daemon.py; a *)
(* launch that finds the lock held never runs the daemon and exits with     *)
(* status 0.                                                                *)
C23_SingleInstance ==
    /\ Cardinality(PastFlock) <= 1
    /\ Cardinality({ p \in Launches : launch[p].pc = "daemon" }) <= 1
    /\ \A p \in Launches :
          launch[p].found_held =>
              /\ ~launch[p].ran_daemon
              /\ launch[p].pc = "exited"
              /\ launch[p].status = <<0>>

\* one launch runs the daemon, a second launch found the lock held and has
\* exited, and a third ran the daemon before and was killed
C23_Witness ==
    \E p, q, r \in Launches :
        /\ launch[p].pc = "daemon"
        /\ launch[q].found_held /\ launch[q].pc = "exited" /\ launch[q].status = <<0>>
        /\ launch[r].pc = "killed" /\ launch[r].ran_daemon

-----------------------------------------------------------------------------
(* scheduler_daemon.py: SchedulerDaemon.monitor_schedules.  The wall clock  *)
(* counts slots of ten seconds from Monday 00:00:00.  One loop iteration is *)
(* split where it reads the clock: the is_scheduled_time check of a         *)
(* schedule file, the run key and thread start for it, and the clean-up.    *)

SlotsPerMinute == 6
SleepSlots == 3

MinuteOf(w) == w \div SlotsPerMinute

\* now.hour, now.minute, now.strftime("%A") of a minute count
HourOfDay(m) == (m \div 60) % 24
MinuteOfHour(m) == m % 60
DayNames == <<"Monday", "Tuesday", "Wednesday", "Thursday", "Friday", "Saturday", "Sunday">>
Weekday(m) == DayNames[((m \div 1440) % 7) + 1]

\* int(s): defined on the numerals, a ValueError otherwise
Numerals == ("00" :> 0) @@ ("01" :> 1) @@ ("11" :> 11) @@ ("12" :> 12) @@ ("59" :> 59)
IsNumeral(s) == s \in DOMAIN Numerals

\* Convert to 24-hour format
ScheduledHour(hour_12, ampm) ==
    IF ampm = "PM" /\ hour_12 < 12 THEN hour_12 + 12
    ELSE IF ampm = "AM" /\ hour_12 = 12 THEN 0
    ELSE hour_12

\* the loop "for hour_str, minute_str, ampm in times" from entry k on, at
\* minute m: "True", "False", or "ValueError" when an entry that is not a
\* triple is reached (the unpacking is outside the try block)
RECURSIVE ScanTimes(_, _, _)
ScanTimes(times, k, m) ==
    IF k > Len(times) THEN "False"
    ELSE IF Len(times[k]) # 3 THEN "ValueError"
    ELSE IF /\ IsNumeral(times[k][1]) /\ IsNumeral(times[k][2])
            /\ HourOfDay(m) = ScheduledHour(Numerals[times[k][1]], times[k][3])
            /\ MinuteOfHour(m) = Numerals[times[k][2]]
         THEN "True"
         ELSE ScanTimes(times, k + 1, m)

is_scheduled_time(schedule_config, w) ==
    IF Weekday(MinuteOf(w)) \notin schedule_config.days THEN "False"
    ELSE ScanTimes(schedule_config.times, 1, MinuteOf(w))

\* f"{client_name}_{now.strftime('%Y-%m-%d_%H:%M')}"
create_run_key(client_name, w) == <<client_name, MinuteOf(w)>>

\* f"{client_name}_{datetime.now().strftime('%H%M')}"
thread_key(client_name, w) == <<client_name, MinuteOf(w) % 1440>>

\* the client directories with a schedule_config.json, in glob order
ClientDirs == {"a", "b"}
ScheduleFiles == <<"a", "b">>

TimeEntries ==
    { << <<"12", "00", "AM">> >>,
      << <<"12", "00", "PM">> >>,
      << <<"11", "59", "PM">>, <<"12", "00", "AM">> >>,
      << <<"x", "00", "AM">>, <<"12", "00", "PM">> >>,
      << <<"12", "00">> >> }

\* what a client directory holds: a schedule file that does not load
\* (config <<>>), or one with days and times; and whether client_history.json
\* has keywords for the directory
ClientChoices ==
    [ config : {<<>>}, keywords : {TRUE} ]
    \cup [ config : { <<[days |-> d, times |-> t]>> :
                         d \in { {"Monday", "Tuesday"}, {"Tuesday"} }, t \in TimeEntries },
           keywords : BOOLEAN ]

\* the daemon is started shortly before Monday noon or Monday midnight
StartMinutes == { 11 * 60 + 58, 23 * 60 + 58 }

Horizon == daemon.start + SlotsPerMinute * MaxMinutes

DaemonInit ==
    /\ wall \in { SlotsPerMinute * m + ph : m \in StartMinutes, ph \in 0..(SleepSlots - 1) }
    /\ clients \in [ClientDirs -> ClientChoices]
    /\ daemon = [pc |-> "find", i |-> 0, passed |-> FALSE, matched |-> 0, start |-> wall]
    /\ last_run_times = <<>>
    /\ threads = <<>>
    /\ started = <<>>
    /\ CoreIdle
    /\ RepeatIdle
    /\ LockIdle
    /\ RunNowIdle
    /\ CaptureIdle

\* continue with the next schedule file, or leave the for loop
NextFile(d) ==
    IF d.i < Len(ScheduleFiles)
    THEN [d EXCEPT !.i = d.i + 1, !.pc = "check"]
    ELSE [d EXCEPT !.pc = "cleanup"]

\* while self.running: schedule_files = self.find_all_client_schedules()
FindSchedules ==
    /\ daemon.pc = "find"
    /\ daemon' = [daemon EXCEPT !.pc = "check", !.i = 1]
    /\ UNCHANGED <<wall, clients, last_run_times, threads, started,
                   cvars, evars, avars, rvars, pvars, lvars, svars, kvars>>

\* load_schedule_config and is_scheduled_time for one schedule file; an
\* exception ends the iteration in the handler of the while loop
CheckSchedule ==
    /\ daemon.pc = "check"
    /\ LET config == clients[ScheduleFiles[daemon.i]].config
       IN  IF config = <<>>
           THEN daemon' = NextFile(daemon)
           ELSE LET r == is_scheduled_time(config[1], wall)
                IN  daemon' = IF r = "True"
                              THEN [daemon EXCEPT !.pc = "key", !.matched = MinuteOf(wall)]
                              ELSE IF r = "False" THEN NextFile(daemon)
                              ELSE [daemon EXCEPT !.pc = "sleep"]
    /\ UNCHANGED <<wall, clients, last_run_times, threads, started,
                   cvars, evars, avars, rvars, pvars, lvars, svars, kvars>>

\* create_run_key, the duplicate test, the registration, the keywords and
\* the thread start for the schedule file that matched
RegisterAndStart ==
    /\ daemon.pc = "key"
    /\ LET c       == ScheduleFiles[daemon.i]
           run_key == create_run_key(c, wall)
           tk      == thread_key(c, wall)
           old     == DictGet(threads, tk)
       IN  IF DictGet(last_run_times, run_key) # <<>>
           THEN UNCHANGED <<last_run_times, threads, started>>
           ELSE /\ last_run_times' = DictSet(last_run_times, run_key, wall)
                /\ IF clients[c].keywords /\ (old = <<>> \/ ~old[1].alive)
                   THEN /\ threads' = DictSet(threads, tk, [dir |-> c, alive |-> TRUE])
                        /\ started' = Append(started, [dir |-> c, matched |-> daemon.matched,
                                                       at |-> MinuteOf(wall)])
                   ELSE UNCHANGED <<threads, started>>
    /\ daemon' = NextFile(daemon)
    /\ UNCHANGED <<wall, clients, cvars, evars, avars, rvars, pvars, lvars, svars, kvars>>

\* Clean up old run time entries (keep only last hour)
CleanUp ==
    /\ daemon.pc = "cleanup"
    /\ LET cutoff_time == (wall \div (60 * SlotsPerMinute)) * (60 * SlotsPerMinute)
       IN  last_run_times' = SelectSeq(last_run_times, LAMBDA it : it.value >= cutoff_time)
    /\ daemon' = [daemon EXCEPT !.pc = "sleep"]
    /\ UNCHANGED <<wall, clients, threads, started,
                   cvars, evars, avars, rvars, pvars, lvars, svars, kvars>>

\* time.sleep(30)
Sleep ==
    /\ daemon.pc = "sleep"
    /\ wall + SleepSlots <= Horizon
    /\ wall' = wall + SleepSlots
    /\ daemon' = [daemon EXCEPT !.pc = "find", !.passed = FALSE]
    /\ UNCHANGED <<clients, last_run_times, threads, started,
                   cvars, evars, avars, rvars, pvars, lvars, svars, kvars>>

\* the clock reaches the next slot while the body of the loop runs; the body
\* takes less than one slot
TimePasses ==
    /\ daemon.pc \in {"check", "key", "cleanup"}
    /\ ~daemon.passed
    /\ wall < Horizon
    /\ wall' = wall + 1
    /\ daemon' = [daemon EXCEPT !.passed = TRUE]
    /\ UNCHANGED <<clients, last_run_times, threads, started,
                   cvars, evars, avars, rvars, pvars, lvars, svars, kvars>>

\* run_scraper_for_client returns: the thread is no longer alive
ThreadEnds ==
    /\ \E k \in 1..Len(threads) :
          /\ threads[k].value.alive
          /\ threads' = [threads EXCEPT ![k].value.alive = FALSE]
    /\ UNCHANGED <<wall, clients, daemon, last_run_times, started,
                   cvars, evars, avars, rvars, pvars, lvars, svars, kvars>>

DaemonNext ==
    \/ FindSchedules
    \/ CheckSchedule
    \/ RegisterAndStart
    \/ CleanUp
    \/ Sleep
    \/ TimePasses
    \/ ThreadEnds

SpecDaemon == DaemonInit /\ [][DaemonNext]_vars

(* C25 as stated: monitor_schedules starts at most one scraping thread per  *)
(* client and scheduled occurrence, i.e. no two threads started for one     *)
(* client come from is_scheduled_time checks made in the same minute.       *)
C25_NoDuplicateRun ==
    \A i, j \in 1..Len(started) :
        (started[i].dir = started[j].dir /\ started[i].matched = started[j].matched)
            => i = j

\* the (day, hour, minute) occurrences of a well-formed entry of a schedule
\* among the minutes that began and ended while the loop was running
DueMinutes(c) ==
    { m \in (MinuteOf(daemon.start) + 1)..(MinuteOf(wall) - 1) :
        /\ clients[c].config # <<>>
        /\ clients[c].keywords
        /\ Weekday(m) \in clients[c].config[1].days
        /\ \E k \in 1..Len(clients[c].config[1].times) :
              LET e == clients[c].config[1].times[k]
              IN  /\ Len(e) = 3 /\ IsNumeral(e[1]) /\ IsNumeral(e[2])
                  /\ HourOfDay(m) = ScheduledHour(Numerals[e[1]], e[3])
                  /\ MinuteOfHour(m) = Numerals[e[2]] }

(* C26 as stated: for every client directory with a loadable schedule and   *)
(* keywords, and every scheduled minute that has passed while the loop was  *)
(* running, a scraping thread for the directory was started in that minute. *)
C26_EveryScheduledTimeRuns ==
    \A c \in ClientDirs : \A m \in DueMinutes(c) :
        \E i \in 1..Len(started) : started[i].dir = c /\ started[i].at = m

-----------------------------------------------------------------------------
(* app.py: "run now".  api_scrape_now starts a thread that runs             *)
(* run_scrape_for_client; the thread is split at its writes of              *)
(* scrape_status.json, which api_status reads at any time.                  *)

\* write_status(client, message, done, success): the file is rewritten
write_status(files, c, message, done, success) ==
    [files EXCEPT ![c] = <<[message |-> message, done |-> done, success |-> success]>>]

\* what a run of an earlier day has left in the client directory
LeftOver == [message |-> "Completed", done |-> TRUE, success |-> Some(1)]

RunNowInit ==
    /\ status_file \in [ClientDirs -> {<<>>, <<LeftOver>>}]
    /\ jobs = <<>>
    /\ seen = {}
    /\ CoreIdle
    /\ RepeatIdle
    /\ LockIdle
    /\ DaemonIdle
    /\ CaptureIdle

\* the workers of client c that have not returned
Unfinished(c) == { j \in 1..Len(jobs) : jobs[j].client = c /\ jobs[j].pc # "finished" }

\* POST /api/scrape/<client>: thread.start(), 202
api_scrape_now ==
    /\ Len(jobs) < MaxJobs
    /\ \E c \in ClientDirs :
          jobs' = Append(jobs, [ client |-> c, pc |-> "load", n |-> 0, i |-> 0,
                                 success_count |-> 0, writes |-> <<>> ])
    /\ UNCHANGED <<status_file, seen, cvars, evars, avars, rvars, pvars, lvars, dvars, kvars>>

\* the worker reads the keywords of the client: an exception, no keywords
\* (final status), or the 'Starting run' status
LoadKeywords(j) ==
    /\ jobs[j].pc = "load"
    /\ \E n \in 0..MaxKeywords, raised \in BOOLEAN :
          IF raised
          THEN /\ jobs' = [jobs EXCEPT ![j].pc = "error"]
               /\ status_file' = status_file
          ELSE IF n = 0
          THEN /\ status_file' = write_status(status_file, jobs[j].client, "No keywords", TRUE, None)
               /\ jobs' = [jobs EXCEPT ![j].pc = "finished",
                                       ![j].writes = Append(@, TRUE)]
          ELSE /\ status_file' = write_status(status_file, jobs[j].client, "Starting", FALSE, None)
               /\ jobs' = [jobs EXCEPT ![j].pc = "scrape", ![j].n = n, ![j].i = 1,
                                       ![j].writes = Append(@, FALSE)]
    /\ UNCHANGED <<seen, cvars, evars, avars, rvars, pvars, lvars, dvars, kvars>>

\* one round of the keyword loop: the 'Scraping i/n' status, then the
\* subprocess, which succeeds, fails, or times out; or an exception outside
\* the inner try
ScrapeKeyword(j) ==
    /\ jobs[j].pc = "scrape"
    /\ \E outcome \in {"ok", "failed", "timeout", "exception"} :
          IF outcome = "exception"
          THEN /\ jobs' = [jobs EXCEPT ![j].pc = "error"]
               /\ status_file' = status_file
          ELSE /\ status_file' = write_status(status_file, jobs[j].client, "Scraping", FALSE, None)
               /\ jobs' = [jobs EXCEPT
                             ![j].writes = Append(@, FALSE),
                             ![j].success_count = IF outcome = "ok" THEN @ + 1 ELSE @,
                             ![j].i = @ + 1,
                             ![j].pc = IF jobs[j].i = jobs[j].n THEN "process" ELSE "scrape"]
    /\ UNCHANGED <<seen, cvars, evars, avars, rvars, pvars, lvars, dvars, kvars>>

\* the 'Processing saved HTML files' status and the process_saved_html run
ProcessHtml(j) ==
    /\ jobs[j].pc = "process"
    /\ status_file' = write_status(status_file, jobs[j].client, "Processing", FALSE, None)
    /\ jobs' = [jobs EXCEPT ![j].writes = Append(@, FALSE), ![j].pc = "complete"]
    /\ UNCHANGED <<seen, cvars, evars, avars, rvars, pvars, lvars, dvars, kvars>>

\* write_status(client, 'Completed. ...', True, success_count)
Complete(j) ==
    /\ jobs[j].pc = "complete"
    /\ status_file' = write_status(status_file, jobs[j].client, "Completed", TRUE,
                                   Some(jobs[j].success_count))
    /\ jobs' = [jobs EXCEPT ![j].writes = Append(@, TRUE), ![j].pc = "finished"]
    /\ UNCHANGED <<seen, cvars, evars, avars, rvars, pvars, lvars, dvars, kvars>>

\* except Exception as e: write_status(client, f'Error: {e}', True)
WriteError(j) ==
    /\ jobs[j].pc = "error"
    /\ status_file' = write_status(status_file, jobs[j].client, "Error", TRUE, None)
    /\ jobs' = [jobs EXCEPT ![j].writes = Append(@, TRUE), ![j].pc = "finished"]
    /\ UNCHANGED <<seen, cvars, evars, avars, rvars, pvars, lvars, dvars, kvars>>

\* GET /api/status/<client>: 'No status yet' without a file, else the file
api_status ==
    /\ \E c \in ClientDirs :
          seen' = seen \cup
             { [ client  |-> c,
                 done    |-> IF status_file[c] = <<>> THEN FALSE ELSE status_file[c][1].done,
                 running |-> Unfinished(c) # {},
                 workers |-> Cardinality({ j \in 1..Len(jobs) : jobs[j].client = c }) ] }
    /\ UNCHANGED <<status_file, jobs, cvars, evars, avars, rvars, pvars, lvars, dvars, kvars>>

RunNowNext ==
    \/ api_scrape_now
    \/ api_status
    \/ \E j \in 1..Len(jobs) :
          \/ LoadKeywords(j)
          \/ ScrapeKeyword(j)
          \/ ProcessHtml(j)
          \/ Complete(j)
          \/ WriteError(j)

SpecRunNow == RunNowInit /\ [][RunNowNext]_vars

(* C24 as stated: at no time do two scraping workers of one client run.     *)
C24_OneWorkerPerClient ==
    \A c \in ClientDirs : Cardinality(Unfinished(c)) <= 1

(* C27 as stated: a worker that has returned wrote done=true last and       *)
(* done=false before, a worker that is running has written only done=false, *)
(* and api_status for a client for which one worker was started returns    *)
(* done=true only when that worker is no longer running.                    *)
C27_DoneOnlyWhenFinished ==
    /\ \A j \in 1..Len(jobs) :
          /\ \A k \in 1..(Len(jobs[j].writes) - 1) : ~jobs[j].writes[k]
          /\ jobs[j].pc = "finished" <=>
                (jobs[j].writes # <<>> /\ jobs[j].writes[Len(jobs[j].writes)])
    /\ \A o \in seen : (o.workers = 1 /\ o.done) => ~o.running

-----------------------------------------------------------------------------
(* kroger_search_and_capture.search_and_capture names the page it saves     *)
(* after the search term; process_saved_html.extract_ads_from_html_file     *)
(* derives the keyword of the page from that name.  Texts are sequences of  *)
(* characters.                                                              *)

TermChars == {"a", "b", "1", "-", "_", " ", "&"}
SearchTerms == UNION { [1..n -> TermChars] : n \in 1..MaxTerm }

\* c.isalnum()
IsAlnum(c) == c \in {"a", "b", "0", "1", "2", "5", "6"}
IsDigit(c) == c \in {"0", "1", "2", "5", "6"}

\* ''.join(c if c.isalnum() or c in ['-', '_'] else '_' for c in search_term)
safe_search_term(t) ==
    [i \in 1..Len(t) |-> IF IsAlnum(t[i]) \/ t[i] \in {"-", "_"} THEN t[i] ELSE "_"]

\* datetime.now().strftime("%Y-%m-%d_%H-%M-%S") at two times
Timestamps ==
    { <<"2", "0", "2", "6", "-", "1", "1", "-", "0", "5", "_", "1", "2", "-", "0", "0", "-", "0", "0">>,
      <<"2", "0", "2", "6", "-", "1", "1", "-", "0", "5", "_", "1", "2", "-", "0", "1", "-", "1", "0">> }

Prefix == <<"s", "e", "a", "r", "c", "h", "_", "r", "e", "s", "u", "l", "t", "s", "_">>

\* f"search_results_{safe_search_term}_{timestamp}" + ".html"
HtmlFileName(t, timestamp) ==
    Prefix \o safe_search_term(t) \o <<"_">> \o timestamp \o <<".", "h", "t", "m", "l">>

\* the pattern _\d{4}-\d{2}-\d{2}_\d{2}-\d{2}-\d{2} matches at position p
TimestampAt(s, p) ==
    /\ p + 19 <= Len(s)
    /\ s[p] = "_"
    /\ \A k \in {1, 2, 3, 4, 6, 7, 9, 10, 12, 13, 15, 16, 18, 19} : IsDigit(s[p + k])
    /\ \A k \in {5, 8, 14, 17} : s[p + k] = "-"
    /\ s[p + 11] = "_"

\* str.replace('_', ' ')
ReplaceUnderscores(s) == [i \in 1..Len(s) |-> IF s[i] = "_" THEN " " ELSE s[i]]

\* the keyword extract_ads_from_html_file takes from the file name: the part
\* between the prefix and the first timestamp; without a timestamp, the part
\* before the last underscore (for a page with no title and no search input)
KeywordFromFilename(filename) ==
    LET matches == { p \in 1..Len(filename) : TimestampAt(filename, p) }
        rest    == SubSeq(filename, Len(Prefix) + 1, Len(filename))
        unders  == { p \in 1..Len(rest) : rest[p] = "_" }
    IN  IF SubSeq(filename, 1, Len(Prefix)) # Prefix THEN None
        ELSE IF matches # {}
        THEN Some(Strip(ReplaceUnderscores(
                 SubSeq(filename, Len(Prefix) + 1, Min(matches) - 1))))
        ELSE IF unders # {}
        THEN Some(ReplaceUnderscores(SubSeq(rest, 1, Max(unders) - 1)))
        ELSE None

CaptureInit ==
    /\ saved = <<>>
    /\ CoreIdle
    /\ RepeatIdle
    /\ LockIdle
    /\ DaemonIdle
    /\ RunNowIdle

\* search_and_capture(search_term) saves the page of a search
search_and_capture ==
    /\ Len(saved) < MaxSaved
    /\ \E t \in SearchTerms, timestamp \in Timestamps :
          saved' = Append(saved, [ search_term |-> t,
                                   html_file |-> HtmlFileName(t, timestamp),
                                   keyword |-> <<>> ])
    /\ UNCHANGED <<cvars, evars, avars, rvars, pvars, lvars, dvars, svars>>

\* extract_ads_from_html_file(html_file) sets the keyword of the page
extract_ads_from_html_file ==
    /\ \E k \in 1..Len(saved) :
          /\ saved[k].keyword = <<>>
          /\ saved' = [saved EXCEPT ![k].keyword = <<KeywordFromFilename(saved[k].html_file)>>]
    /\ UNCHANGED <<cvars, evars, avars, rvars, pvars, lvars, dvars, svars>>

CaptureNext == search_and_capture \/ extract_ads_from_html_file

SpecCapture == CaptureInit /\ [][CaptureNext]_vars

(* C28 as stated: the keyword derived from the name of a saved page is the  *)
(* search term the page was saved for, and pages saved for different search *)
(* terms never get the same keyword.                                        *)
C28_KeywordIsSearchTerm ==
    /\ \A k \in 1..Len(saved) :
          saved[k].keyword # <<>> => saved[k].keyword[1] = Some(saved[k].search_term)
    /\ \A k, l \in 1..Len(saved) :
          (/\ saved[k].keyword # <<>> /\ saved[l].keyword # <<>>
           /\ saved[k].search_term # saved[l].search_term)
              => saved[k].keyword # saved[l].keyword

====
